---- MODULE Spec2Model ----
(***************************************************************************)
(* A model of rust-tree-map: the single tree store (TreeMap, two files)    *)
(* and the sharded tree store (MultiFileTreeMap, a master file and one     *)
(* TreeMap per shard selector).                                            *)
(*                                                                         *)
(* Files are modelled at the granularity of their fixed-size records: the  *)
(* node file is a sequence of 40-byte node records, the map file a         *)
(* sequence of 10-byte child map entries.  Byte positions are kept (a      *)
(* record's position is its index times the record length), so that the    *)
(* conversions between node ids and positions are computed as in the code. *)
(* Every public operation holds the store's mutex from its first to its    *)
(* last statement, so one operation is one action.                         *)
(***************************************************************************)
EXTENDS Integers, Sequences, FiniteSets, TLC

VARIABLES
    tree,     \* the single store: the TreeMap (its two files, n_nodes, mutex state)
    made,     \* history: made[c] = the arguments of the add_child that returned c
    ret,      \* the last call on the single store and what it returned; the
              \* arguments are kept for add_child only, a read's result being
              \* a function of the store and of its arguments
    multi,    \* the sharded store: directory, master file, MasterData, open mode
    mmade,    \* history: the successful add_child calls on the sharded store
    mret,     \* the last call on the sharded store and what it returned
    calls,    \* threads sharing one store: for each thread the call it is in,
              \* the locks that call has still to take, and its calls so far
    locks     \* threads sharing one store: for each mutex the thread whose
              \* guard is alive, or 0

vars == <<tree, made, ret, multi, mmade, mret, calls, locks>>

\* the store is not shared: one caller, whose every call runs from lock to unlock
NoThreads == calls = <<>> /\ locks = <<>>

---------------------------------------------------------------------------
(* Program constants *)

NODE_LENGTH == 40
MAP_LENGTH == 10
\* u64::MAX, the all-ones parent position of a top node.  TLC's integers are
\* 32 bits wide; -1 is the same bit pattern read as a signed number.
U64_MAX == -1
\* the all-ones key of a reserved map entry (children_to_buf fills with 255u8)
U16_MAX == 65535

(* Bounds of the model *)

\* a node file holds at most MaxNodes records (the top node included)
MaxNodes == 3

(* Inputs *)

Keys == {10, 15}
MaxChildrenIn == {0, 1, 2}
\* (hits, score, max_children) given to add_child
ChildIn == {<<100, 1000, 0>>, <<200, 2000, 1>>, <<300, 3000, 2>>}
NodeIds == 0..MaxNodes

---------------------------------------------------------------------------
(* Result<T, TreeFileError>, Option<T>, and a panic (an unwrap of an Err,  *)
(* or of a poisoned mutex)                                                 *)

Ok(v) == [tag |-> "Ok", val |-> v]
Err(e) == [tag |-> "Err", val |-> e]
Panic == [tag |-> "Panic", val |-> "panic"]
IsOk(r) == r.tag = "Ok"
IsErr(r, e) == r.tag = "Err" /\ r.val = e
None == <<>>
Some(x) == <<x>>

NonExistingFiles == "NonExistingFiles"
NonExistingNode == "NonExistingNode"
LogicError == "LogicError"
FileIOError == "FileIOError"

---------------------------------------------------------------------------
(* tree_map.rs: the helpers working on the locked FileData.  `lock` is the *)
(* record [node_file, map_file, n_nodes, poisoned].                        *)

pos_to_node_id(pos) == pos \div NODE_LENGTH

node_id_to_pos(node_id) == node_id * NODE_LENGTH

\* faulty variant: hits and score written to each other's bytes
node_to_buf_swapped(parent_pos, node_data) ==
    [parent_pos |-> parent_pos,
     hits |-> node_data.score,
     score |-> node_data.hits,
     first_child_pos |-> node_data.first_child_pos,
     n_children |-> node_data.n_children,
     max_children |-> node_data.max_children]

\* the six little-endian fields of a node record
node_to_buf(parent_pos, node_data) ==
    [parent_pos |-> parent_pos,
     hits |-> node_data.hits,
     score |-> node_data.score,
     first_child_pos |-> node_data.first_child_pos,
     n_children |-> node_data.n_children,
     max_children |-> node_data.max_children]

\* faulty variant: the block is filled with zero bytes
children_to_buf_zeroed(children, max_children) ==
    [i \in 1..max_children |->
        IF i <= Len(children) THEN children[i]
        ELSE [node_pos |-> 0, key |-> 0]]

\* a block of max_children entries, all 0xFF, the children written from its start
children_to_buf(children, max_children) ==
    [i \in 1..max_children |->
        IF i <= Len(children) THEN children[i]
        ELSE [node_pos |-> U64_MAX, key |-> U16_MAX]]

\* read_exact of n records at byte position pos: fails past the end of the file
ReadExact(file, pos, len, n) ==
    LET first == pos \div len IN
    IF first + n > Len(file) THEN Err(FileIOError)
    ELSE Ok([i \in 1..n |-> file[first + i]])

\* write_all of the records buf at byte position pos (at most at the end of the file)
WriteAll(file, pos, len, buf) ==
    LET first == pos \div len
        last == IF first + Len(buf) > Len(file) THEN first + Len(buf) ELSE Len(file)
    IN [i \in 1..last |->
          IF i > first /\ i <= first + Len(buf) THEN buf[i - first] ELSE file[i]]

\* faulty variant: the id one past the last node passes
check_presence_past_end(lock, node) ==
    IF node > lock.n_nodes THEN Err(NonExistingNode) ELSE Ok(TRUE)

check_presence(lock, node) ==
    IF node >= lock.n_nodes THEN Err(NonExistingNode) ELSE Ok(TRUE)

\* faulty variant: the position after the record to come
expected_node_pos_next(lock) == (Len(lock.node_file) + 1) * NODE_LENGTH

expected_node_pos(lock) == Len(lock.node_file) * NODE_LENGTH

get_node(lock, node_pos) ==
    LET rd == ReadExact(lock.node_file, node_pos, NODE_LENGTH, 1) IN
    IF ~IsOk(rd) THEN rd
    ELSE LET buf == rd.val[1] IN
         Ok([node_id |-> pos_to_node_id(node_pos),
             node_pos |-> node_pos,
             parent |-> IF buf.parent_pos = U64_MAX THEN None
                        ELSE Some(pos_to_node_id(buf.parent_pos)),
             hits |-> buf.hits,
             score |-> buf.score,
             first_child_pos |-> buf.first_child_pos,
             n_children |-> buf.n_children,
             max_children |-> buf.max_children])

\* appends the record and counts it; returns the new FileData
add_node(lock, parent_pos, hits, score, max_children) ==
    LET node_pos == Len(lock.node_file) * NODE_LENGTH
        node_data == [node_id |-> 0, node_pos |-> node_pos, parent |-> None,
                      hits |-> hits, score |-> score, first_child_pos |-> 0,
                      n_children |-> 0, max_children |-> max_children]
    IN [lock EXCEPT
          !.node_file = Append(@, node_to_buf(parent_pos, node_data)),
          !.n_nodes = @ + 1]

get_node_child_meta(lock, node_pos) ==
    LET rd == ReadExact(lock.node_file, node_pos, NODE_LENGTH, 1) IN
    IF ~IsOk(rd) THEN rd
    ELSE Ok([first_child_pos |-> rd.val[1].first_child_pos,
             n_children |-> rd.val[1].n_children,
             max_children |-> rd.val[1].max_children])

\* faulty variant: the count of children is left as it was
update_node_child_meta_uncounted(lock, node_pos, children_meta) ==
    LET i == node_pos \div NODE_LENGTH + 1 IN
    [lock EXCEPT
       !.node_file[i].first_child_pos = children_meta.first_child_pos,
       !.node_file[i].max_children = children_meta.max_children]

\* patches the 16 bytes of children meta of the record at node_pos
update_node_child_meta(lock, node_pos, children_meta) ==
    LET i == node_pos \div NODE_LENGTH + 1 IN
    [lock EXCEPT
       !.node_file[i].first_child_pos = children_meta.first_child_pos,
       !.node_file[i].n_children = children_meta.n_children,
       !.node_file[i].max_children = children_meta.max_children]

\* faulty variant: the scan stops one entry early
LastHit_stops_early(buf, n, key) ==
    IF n <= 1 THEN None
    ELSE IF buf[n - 1].key = key
         THEN Some([node_pos |-> buf[n - 1].node_pos, key |-> key])
         ELSE None

RECURSIVE LastHit(_, _, _)
\* the loop of get_children_maps: key_hit is overwritten by every matching entry
LastHit(buf, n, key) ==
    IF n = 0 THEN None
    ELSE IF buf[n].key = key THEN Some([node_pos |-> buf[n].node_pos, key |-> key])
    ELSE LastHit(buf, n - 1, key)

get_children_maps(lock, key, children_meta) ==
    LET rd == ReadExact(lock.map_file, children_meta.first_child_pos, MAP_LENGTH,
                        children_meta.max_children)
    IN IF ~IsOk(rd) THEN rd
       ELSE Ok([key_hit |-> LastHit(rd.val, children_meta.n_children, key),
                child_maps |-> [i \in 1..children_meta.n_children |-> rd.val[i]]])

\* faulty variant: yields the positions, not the ids
get_children_vec_positions(lock, children_meta) ==
    LET rd == ReadExact(lock.map_file, children_meta.first_child_pos, MAP_LENGTH,
                        children_meta.max_children)
    IN IF ~IsOk(rd) THEN rd
       ELSE Ok([i \in 1..children_meta.n_children |->
                  <<rd.val[i].key, rd.val[i].node_pos>>])

get_children_vec(lock, children_meta) ==
    LET rd == ReadExact(lock.map_file, children_meta.first_child_pos, MAP_LENGTH,
                        children_meta.max_children)
    IN IF ~IsOk(rd) THEN rd
       ELSE Ok([i \in 1..children_meta.n_children |->
                  <<rd.val[i].key, pos_to_node_id(rd.val[i].node_pos)>>])

update_children_maps(lock, children_maps, children_meta) ==
    [lock EXCEPT
       !.map_file = WriteAll(@, children_meta.first_child_pos, MAP_LENGTH,
                             children_to_buf(children_maps, children_meta.max_children))]

\* faulty variant: only the child's entry is appended, not the whole block
add_child_map_single(lock, child_map, max_children) ==
    LET children_pos == Len(lock.map_file) * MAP_LENGTH IN
    [lock |-> [lock EXCEPT
                 !.map_file = WriteAll(@, children_pos, MAP_LENGTH, <<child_map>>)],
     pos |-> children_pos]

\* appends a block holding the one child; returns the FileData and the block's position
add_child_map(lock, child_map, max_children) ==
    LET children_pos == Len(lock.map_file) * MAP_LENGTH IN
    [lock |-> [lock EXCEPT
                 !.map_file = WriteAll(@, children_pos, MAP_LENGTH,
                                       children_to_buf(<<child_map>>, max_children))],
     pos |-> children_pos]

new_children_child_mappings(lock, parent_pos, key, child_pos, children_meta) ==
    IF children_meta.max_children = 0
    THEN [lock |-> lock, res |-> Err(LogicError)]
    ELSE LET added == add_child_map(lock, [node_pos |-> child_pos, key |-> key],
                                    children_meta.max_children)
             meta == [children_meta EXCEPT !.n_children = 1,
                                           !.first_child_pos = added.pos]
         IN [lock |-> update_node_child_meta(added.lock, parent_pos, meta),
             res |-> Ok(TRUE)]

\* faulty variant: the capacity check is off by one
update_children_child_mappings_overfull(lock, parent_pos, key, child_pos, children_meta) ==
    LET rd == get_children_maps(lock, key, children_meta) IN
    IF ~IsOk(rd) THEN [lock |-> lock, res |-> rd]
    ELSE IF rd.val.key_hit # None THEN [lock |-> lock, res |-> Err(LogicError)]
    ELSE LET child_maps == Append(rd.val.child_maps,
                                  [node_pos |-> child_pos, key |-> key])
             new_children_len == Len(child_maps)
         IN IF new_children_len > children_meta.max_children + 1
            THEN [lock |-> lock, res |-> Err(LogicError)]
            ELSE LET written == update_children_maps(lock, child_maps, children_meta)
                     meta == [children_meta EXCEPT !.n_children = new_children_len]
                 IN [lock |-> update_node_child_meta(written, parent_pos, meta),
                     res |-> Ok(TRUE)]

update_children_child_mappings(lock, parent_pos, key, child_pos, children_meta) ==
    LET rd == get_children_maps(lock, key, children_meta) IN
    IF ~IsOk(rd) THEN [lock |-> lock, res |-> rd]
    ELSE IF rd.val.key_hit # None THEN [lock |-> lock, res |-> Err(LogicError)]
    ELSE LET child_maps == Append(rd.val.child_maps,
                                  [node_pos |-> child_pos, key |-> key])
             new_children_len == Len(child_maps)
         IN IF new_children_len > children_meta.max_children
            THEN [lock |-> lock, res |-> Err(LogicError)]
            ELSE LET written == update_children_maps(lock, child_maps, children_meta)
                     meta == [children_meta EXCEPT !.n_children = new_children_len]
                 IN [lock |-> IF new_children_len # children_meta.n_children
                              THEN update_node_child_meta(written, parent_pos, meta)
                              ELSE written,
                     res |-> Ok(TRUE)]

\* faulty variant: the records of the file are not counted
count_nodes_uncounted(lock) == [lock EXCEPT !.n_nodes = 0]

count_nodes(lock) == [lock EXCEPT !.n_nodes = Len(lock.node_file)]

---------------------------------------------------------------------------
(* tree_map.rs: the public operations of TreeMap.  `t` is the TreeMap: its *)
(* FileData and whether its mutex is poisoned (a panic while the guard is  *)
(* held poisons the mutex, and lock().unwrap() panics from then on).       *)
(* An operation that can change the store returns [t, res].                *)

TruncateCreate == "TruncateCreate"
OpenCreate == "OpenCreate"
MustExist == "MustExist"
OpenModes == {TruncateCreate, OpenCreate, MustExist}

\* the two files of a store as found in the directory: NoFiles, or their contents
NoFiles == [exists |-> FALSE, node_file |-> <<>>, map_file |-> <<>>]
Files(node_file, map_file) ==
    [exists |-> TRUE, node_file |-> node_file, map_file |-> map_file]

\* faulty variant: the top node is made with room for no child
TreeMap_new_childless(found, max_top_children, open_mode) ==
    IF open_mode = MustExist /\ ~found.exists THEN Err(NonExistingFiles)
    ELSE LET opened == IF open_mode = TruncateCreate \/ ~found.exists
                       THEN [node_file |-> <<>>, map_file |-> <<>>]
                       ELSE [node_file |-> found.node_file, map_file |-> found.map_file]
             counted == count_nodes([node_file |-> opened.node_file,
                                     map_file |-> opened.map_file,
                                     n_nodes |-> 0,
                                     poisoned |-> FALSE])
         IN Ok(IF counted.n_nodes = 0
               THEN add_node(counted, U64_MAX, 0, 0, 0)
               ELSE counted)

\* TreeMap::new on the files found under the prefix
TreeMap_new(found, max_top_children, open_mode) ==
    IF open_mode = MustExist /\ ~found.exists THEN Err(NonExistingFiles)
    ELSE LET opened == IF open_mode = TruncateCreate \/ ~found.exists
                       THEN [node_file |-> <<>>, map_file |-> <<>>]
                       ELSE [node_file |-> found.node_file, map_file |-> found.map_file]
             counted == count_nodes([node_file |-> opened.node_file,
                                     map_file |-> opened.map_file,
                                     n_nodes |-> 0,
                                     poisoned |-> FALSE])
         IN Ok(IF counted.n_nodes = 0
               THEN add_node(counted, U64_MAX, 0, 0, max_top_children)
               ELSE counted)

TreeMap_get_top == 0

\* len() of a store whose mutex is not poisoned
TreeMap_len(t) == t.n_nodes

TreeMap_get_node(t, node) ==
    IF t.poisoned THEN Panic
    ELSE IF ~IsOk(check_presence(t, node)) THEN check_presence(t, node)
    ELSE get_node(t, node_id_to_pos(node))

TreeMap_add_child(t, node, key, hits, score, max_children) ==
    IF t.poisoned THEN [t |-> t, res |-> Panic]
    ELSE IF ~IsOk(check_presence(t, node))
    THEN [t |-> t, res |-> check_presence(t, node)]
    ELSE LET parent_pos == node_id_to_pos(node)
             child_pos == expected_node_pos(t)
             children_meta == get_node_child_meta(t, parent_pos)
         IN IF ~IsOk(children_meta) THEN [t |-> t, res |-> children_meta]
            ELSE LET mapped ==
                       IF children_meta.val.n_children = 0
                       THEN new_children_child_mappings(t, parent_pos, key, child_pos,
                                                        children_meta.val)
                       ELSE update_children_child_mappings(t, parent_pos, key, child_pos,
                                                           children_meta.val)
                 IN IF ~IsOk(mapped.res) THEN [t |-> mapped.lock, res |-> mapped.res]
                    ELSE [t |-> add_node(mapped.lock, parent_pos, hits, score, max_children),
                          res |-> Ok(pos_to_node_id(child_pos))]

TreeMap_get_child(t, node, key) ==
    IF t.poisoned THEN Panic
    ELSE IF ~IsOk(check_presence(t, node)) THEN check_presence(t, node)
    ELSE LET children_meta == get_node_child_meta(t, node_id_to_pos(node)) IN
         IF ~IsOk(children_meta) THEN children_meta
         ELSE IF children_meta.val.n_children = 0 THEN Ok(None)
         ELSE LET res == get_children_maps(t, key, children_meta.val) IN
              IF ~IsOk(res) THEN res
              ELSE IF res.val.key_hit = None THEN Ok(None)
              ELSE LET nd == get_node(t, res.val.key_hit[1].node_pos) IN
                   IF IsOk(nd) THEN Ok(Some(nd.val)) ELSE nd

\* faulty variant: the parent's id is taken for its position
TreeMap_get_parent_by_id(t, node) ==
    IF t.poisoned THEN Panic
    ELSE IF ~IsOk(check_presence(t, node)) THEN check_presence(t, node)
    ELSE LET node_data == get_node(t, node_id_to_pos(node)) IN
         IF ~IsOk(node_data) THEN node_data
         ELSE IF node_data.val.parent = None THEN Ok(None)
         ELSE LET nd == get_node(t, node_data.val.parent[1]) IN
              IF IsOk(nd) THEN Ok(Some(nd.val)) ELSE nd

TreeMap_get_parent(t, node) ==
    IF t.poisoned THEN Panic
    ELSE IF ~IsOk(check_presence(t, node)) THEN check_presence(t, node)
    ELSE LET node_data == get_node(t, node_id_to_pos(node)) IN
         IF ~IsOk(node_data) THEN node_data
         ELSE IF node_data.val.parent = None THEN Ok(None)
         ELSE LET nd == get_node(t, node_id_to_pos(node_data.val.parent[1])) IN
              IF IsOk(nd) THEN Ok(Some(nd.val)) ELSE nd

\* Iter::next pops from the tail of key_vals
RECURSIVE Reverse(_)
Reverse(s) == IF s = <<>> THEN <<>> ELSE Append(Reverse(Tail(s)), Head(s))

\* the pairs in the order the iterator yields them; the two unwraps panic on
\* an Err, with the guard held
TreeMap_get_child_iter(t, node) ==
    IF t.poisoned THEN [t |-> t, res |-> Panic]
    ELSE IF ~IsOk(check_presence(t, node)) THEN [t |-> t, res |-> Ok(<<>>)]
    ELSE LET children_meta == get_node_child_meta(t, node_id_to_pos(node)) IN
         IF ~IsOk(children_meta)
         THEN [t |-> [t EXCEPT !.poisoned = TRUE], res |-> Panic]
         ELSE LET key_vals == get_children_vec(t, children_meta.val) IN
              IF ~IsOk(key_vals)
              THEN [t |-> [t EXCEPT !.poisoned = TRUE], res |-> Panic]
              ELSE [t |-> t, res |-> Ok(Reverse(key_vals.val))]

\* utils.rs: value + add on a u64, refusing to go below zero
add_and_subtract(value, add) ==
    IF add < 0
    THEN IF -add > value THEN Err(LogicError) ELSE Ok(value - (-add))
    ELSE Ok(value + add)

\* faulty variant: the parent of the record is written as none
update_node_orphans(lock, node_data) ==
    [lock EXCEPT !.node_file =
        WriteAll(@, node_data.node_pos, NODE_LENGTH,
                 <<node_to_buf(U64_MAX, node_data)>>)]

\* faulty variant: the record is written with the room for children it uses
update_node_shrinks(lock, node_data) ==
    LET parent_pos == IF node_data.parent # None
                      THEN node_id_to_pos(node_data.parent[1])
                      ELSE U64_MAX
    IN [lock EXCEPT !.node_file =
          WriteAll(@, node_data.node_pos, NODE_LENGTH,
                   <<node_to_buf(parent_pos,
                                 [node_data EXCEPT !.max_children = node_data.n_children])>>)]

\* writes the whole record of node_data over the one at its position
update_node(lock, node_data) ==
    LET parent_pos == IF node_data.parent # None
                      THEN node_id_to_pos(node_data.parent[1])
                      ELSE U64_MAX
    IN [lock EXCEPT !.node_file =
          WriteAll(@, node_data.node_pos, NODE_LENGTH,
                   <<node_to_buf(parent_pos, node_data)>>)]

\* faulty variant: the hits are written before the score is computed
TreeMap_update_node_add_in_steps(t, node, hits, score) ==
    IF t.poisoned THEN [t |-> t, res |-> Panic]
    ELSE IF ~IsOk(check_presence(t, node)) THEN [t |-> t, res |-> check_presence(t, node)]
    ELSE LET node_data == get_node(t, node_id_to_pos(node))
             h == add_and_subtract(node_data.val.hits, hits)
             t1 == update_node(t, [node_data.val EXCEPT !.hits = h.val])
             s == add_and_subtract(node_data.val.score, score)
         IN IF ~IsOk(node_data) THEN [t |-> t, res |-> node_data]
            ELSE IF ~IsOk(h) THEN [t |-> t, res |-> h]
            ELSE IF ~IsOk(s) THEN [t |-> t1, res |-> s]
            ELSE [t |-> update_node(t, [node_data.val EXCEPT !.hits = h.val,
                                                              !.score = s.val]),
                  res |-> Ok(TRUE)]

\* returns [t, res]: nothing is written unless both sums can be had
TreeMap_update_node_add(t, node, hits, score) ==
    IF t.poisoned THEN [t |-> t, res |-> Panic]
    ELSE IF ~IsOk(check_presence(t, node)) THEN [t |-> t, res |-> check_presence(t, node)]
    ELSE LET node_data == get_node(t, node_id_to_pos(node))
             h == add_and_subtract(node_data.val.hits, hits)
             s == add_and_subtract(node_data.val.score, score)
         IN IF ~IsOk(node_data) THEN [t |-> t, res |-> node_data]
            ELSE IF ~IsOk(h) THEN [t |-> t, res |-> h]
            ELSE IF ~IsOk(s) THEN [t |-> t, res |-> s]
            ELSE [t |-> update_node(t, [node_data.val EXCEPT !.hits = h.val,
                                                              !.score = s.val]),
                  res |-> Ok(TRUE)]

---------------------------------------------------------------------------
(* multi_file_tree_map.rs.  `lock` is the locked MasterData together with  *)
(* what it stands on:                                                      *)
(*   dir         the shard files in the directory that no TreeMap of the   *)
(*               roster holds open, by selector (an open TreeMap carries   *)
(*               its files itself)                                         *)
(*   master_file the master record as last written                         *)
(*   trees       the roster: selector -> TreeMap                           *)
(*   hash_order  the order in which this HashMap iterates over selectors   *)
(*               (unspecified, fixed when the map is created)              *)
(*   max_top_children, hits, score, open_mode, poisoned                    *)
(* Errors are Strings in this store; the kind of a TreeFileError is kept.  *)
(* The master file holds no record (fewer than MASTER_MIN_LENGTH bytes) or *)
(* one record.                                                             *)

Selectors == {0, 1}

RosterFull == "Error, trying to add more children than allowed for parent"
NoKeyForTop == "Top node given, but no key to select files from"

\* the splitter the caller supplies; the tests' is |k| (k >> 8) as u8
splitter(key) == (key \div 256) % 256

selector_from_selector_node(node) == node % 256

\* faulty variant: the selector is left out of the composite id
selector_node_from_node_unselected(node, selector) == node * 256

selector_node_from_node(node, selector) == node * 256 + selector

node_from_selector_node(node) == node \div 256

MultiFileTreeMap_get_top == 0

get_selector(node, key) ==
    IF key # None /\ node = MultiFileTreeMap_get_top THEN Ok(splitter(key[1]))
    ELSE IF key # None THEN Ok(selector_from_selector_node(node))
    ELSE IF node # MultiFileTreeMap_get_top THEN Ok(selector_from_selector_node(node))
    ELSE Err(NoKeyForTop)

\* the selectors of the roster in the order the HashMap iterates over them
RosterOrder(lock) == SelectSeq(lock.hash_order, LAMBDA s : s \in DOMAIN lock.trees)

\* the master record: four numbers, then one byte per selector; written from
\* position 0 over what the file holds
save_master_data(lock) ==
    LET keys == RosterOrder(lock)
        old == IF lock.master_file = <<>> THEN <<>> ELSE lock.master_file[1].selectors
    IN [lock EXCEPT !.master_file =
          <<[max_top_children |-> lock.max_top_children,
             n_children |-> Cardinality(DOMAIN lock.trees),
             hits |-> lock.hits,
             score |-> lock.score,
             selectors |-> keys \o SubSeq(old, Len(keys) + 1, Len(old))]>>]

\* the files of the shard, as TreeMap::new finds them under the prefix
FoundFiles(lock, tree_selector) == lock.dir[tree_selector]

\* the TreeMap takes the shard's files over from the directory
InsertTree(lock, tree_selector, t) ==
    [lock EXCEPT !.trees = [s \in DOMAIN @ \cup {tree_selector} |->
                              IF s = tree_selector THEN t ELSE @[s]],
                 !.dir[tree_selector] = NoFiles]

\* add_tree letting a full roster take one more tree
add_tree_past_full(lock, tree_selector, open_mode) ==
    IF Cardinality(DOMAIN lock.trees) > lock.max_top_children
    THEN [m |-> lock, res |-> Err(RosterFull)]
    ELSE LET t == TreeMap_new(FoundFiles(lock, tree_selector), 0, open_mode) IN
         IF ~IsOk(t) THEN [m |-> lock, res |-> t]
         ELSE [m |-> save_master_data(InsertTree(lock, tree_selector, t.val)),
               res |-> Ok(TRUE)]

add_tree(lock, tree_selector, open_mode) ==
    IF Cardinality(DOMAIN lock.trees) >= lock.max_top_children
    THEN [m |-> lock, res |-> Err(RosterFull)]
    ELSE LET t == TreeMap_new(FoundFiles(lock, tree_selector), 0, open_mode) IN
         IF ~IsOk(t) THEN [m |-> lock, res |-> t]
         ELSE [m |-> save_master_data(InsertTree(lock, tree_selector, t.val)),
               res |-> Ok(TRUE)]

\* the loop runs at most twice: add_tree either fails or puts the selector on
\* the roster.  func(tree) returns [t, res].
manage_trees_and_execute(lock, tree_selector, open_mode, func(_)) ==
    LET run(l) == LET r == func(l.trees[tree_selector]) IN
                  [m |-> [l EXCEPT !.trees[tree_selector] = r.t], res |-> r.res]
    IN IF tree_selector \in DOMAIN lock.trees THEN run(lock)
       ELSE LET added == add_tree(lock, tree_selector, open_mode) IN
            IF ~IsOk(added.res) THEN added ELSE run(added.m)

\* a panic with the master guard held poisons the master mutex
Poison(lock) == [lock EXCEPT !.poisoned = TRUE]

\* faulty variant: the capacity of the roster is given as its size
get_top_node_data_full(lock) ==
    [node_id |-> MultiFileTreeMap_get_top,
     node_pos |-> 0,
     parent |-> None,
     hits |-> lock.hits,
     score |-> lock.score,
     first_child_pos |-> 0,
     n_children |-> lock.max_top_children,
     max_children |-> lock.max_top_children]

get_top_node_data(lock) ==
    [node_id |-> MultiFileTreeMap_get_top,
     node_pos |-> 0,
     parent |-> None,
     hits |-> lock.hits,
     score |-> lock.score,
     first_child_pos |-> 0,
     n_children |-> Cardinality(DOMAIN lock.trees),
     max_children |-> lock.max_top_children]

\* the number of nodes the trees of the roster count, plus one
MultiFileTreeMap_len(lock) ==
    LET RECURSIVE sum(_)
        sum(S) == IF S = {} THEN 0
                  ELSE LET s == CHOOSE x \in S : TRUE IN
                       TreeMap_len(lock.trees[s]) + sum(S \ {s})
    IN sum(DOMAIN lock.trees) + 1

\* Result<NodeData, _>::map: the node id re-encoded, nothing else
MapNodeId(res, tree_selector) ==
    IF ~IsOk(res) THEN res
    ELSE Ok([res.val EXCEPT !.node_id = selector_node_from_node(@, tree_selector)])

\* Result<Option<NodeData>, _>::map: the node id of a found node re-encoded
MapOptionNodeId(res, tree_selector) ==
    IF ~IsOk(res) \/ res.val = None THEN res
    ELSE Ok(Some([res.val[1] EXCEPT
                    !.node_id = selector_node_from_node(@, tree_selector)]))

MultiFileTreeMap_get_node(lock, node) ==
    IF lock.poisoned THEN [m |-> lock, res |-> Panic]
    ELSE IF node = MultiFileTreeMap_get_top
    THEN [m |-> lock, res |-> Ok(get_top_node_data(lock))]
    ELSE LET tree_selector == get_selector(node, None).val IN
         manage_trees_and_execute(lock, tree_selector, MustExist,
             LAMBDA t : [t |-> t,
                         res |-> MapNodeId(
                             TreeMap_get_node(t, node_from_selector_node(node)),
                             tree_selector)])

MultiFileTreeMap_add_child(lock, node, key, hits, score, max_children) ==
    IF lock.poisoned THEN [m |-> lock, res |-> Panic]
    ELSE LET tree_selector == get_selector(node, Some(key)).val IN
         manage_trees_and_execute(lock, tree_selector, lock.open_mode,
             LAMBDA t :
                 LET r == TreeMap_add_child(t, node_from_selector_node(node), key,
                                            hits, score, max_children)
                 IN [t |-> r.t,
                     res |-> IF IsOk(r.res)
                             THEN Ok(selector_node_from_node(r.res.val, tree_selector))
                             ELSE r.res])

MultiFileTreeMap_get_child(lock, node, key) ==
    IF lock.poisoned THEN [m |-> lock, res |-> Panic]
    ELSE LET tree_selector == get_selector(node, Some(key)).val IN
         manage_trees_and_execute(lock, tree_selector, MustExist,
             LAMBDA t : [t |-> t,
                         res |-> MapOptionNodeId(
                             TreeMap_get_child(t, node_from_selector_node(node), key),
                             tree_selector)])

\* get_parent(0) returns before the mutex is taken
MultiFileTreeMap_get_parent(lock, node) ==
    IF node = MultiFileTreeMap_get_top THEN [m |-> lock, res |-> Ok(None)]
    ELSE IF lock.poisoned THEN [m |-> lock, res |-> Panic]
    ELSE LET tree_selector == get_selector(node, None).val IN
         manage_trees_and_execute(lock, tree_selector, MustExist,
             LAMBDA t : [t |-> t,
                         res |-> MapOptionNodeId(
                             TreeMap_get_parent(t, node_from_selector_node(node)),
                             tree_selector)])

\* the top's sums are stored into MasterData one after the other, and the
\* master record is written when both could be had; returns [m, res]
MultiFileTreeMap_update_node_add(lock, node, hits, score) ==
    IF lock.poisoned THEN [m |-> lock, res |-> Panic]
    ELSE IF node = MultiFileTreeMap_get_top
    THEN LET h == add_and_subtract(lock.hits, hits) IN
         IF ~IsOk(h) THEN [m |-> lock, res |-> h]
         ELSE LET lock1 == [lock EXCEPT !.hits = h.val]
                  s == add_and_subtract(lock1.score, score)
              IN IF ~IsOk(s) THEN [m |-> lock1, res |-> s]
                 ELSE [m |-> save_master_data([lock1 EXCEPT !.score = s.val]),
                       res |-> Ok(TRUE)]
    ELSE LET tree_selector == get_selector(node, None).val IN
         manage_trees_and_execute(lock, tree_selector, MustExist,
             LAMBDA t : TreeMap_update_node_add(t, node_from_selector_node(node),
                                                hits, score))

RECURSIVE TopChildren(_, _)
\* get_child_iter(0): every tree's iterator over its own top, drained into
\* key_vals in the order the HashMap yields the trees.  [panic, key_vals]
TopChildren(lock, order) ==
    IF order = <<>> THEN [panic |-> FALSE, key_vals |-> <<>>]
    ELSE LET r == TreeMap_get_child_iter(lock.trees[Head(order)], TreeMap_get_top)
             rest == TopChildren(lock, Tail(order))
         IN IF ~IsOk(r.res) \/ rest.panic THEN [panic |-> TRUE, key_vals |-> <<>>]
            ELSE [panic |-> FALSE, key_vals |-> r.res.val \o rest.key_vals]

\* the pairs in the order the iterator yields them (it pops from the tail);
\* expect() panics when the tree cannot be had, a tree's own unwrap when its
\* block cannot be read
MultiFileTreeMap_get_child_iter(lock, node) ==
    IF lock.poisoned THEN [m |-> lock, res |-> Panic]
    ELSE IF node = MultiFileTreeMap_get_top
    THEN LET top == TopChildren(lock, RosterOrder(lock)) IN
         IF top.panic THEN [m |-> Poison(lock), res |-> Panic]
         ELSE [m |-> lock, res |-> Ok(Reverse(top.key_vals))]
    ELSE LET tree_selector == get_selector(node, None).val
             r == manage_trees_and_execute(lock, tree_selector, MustExist,
                      LAMBDA t : TreeMap_get_child_iter(t, node_from_selector_node(node)))
         IN IF ~IsOk(r.res) THEN [m |-> Poison(r.m), res |-> Panic] ELSE r

NoMasterData == "Error, no master data in master file"
TooFewTrees == "Error, to few trees in master file"
MasterMissing == "Master file missing"

RECURSIVE LoadTrees(_, _, _)
\* the loop of load_master_data over the selector bytes of the master record
LoadTrees(lock, selectors, open_mode) ==
    IF selectors = <<>> THEN [m |-> lock, res |-> Ok(TRUE)]
    ELSE LET tree_selector == Head(selectors)
             t == TreeMap_new(FoundFiles(lock, tree_selector), 0, open_mode)
         IN IF ~IsOk(t) THEN [m |-> lock, res |-> t]
            ELSE LoadTrees(InsertTree(lock, tree_selector, t.val), Tail(selectors),
                           open_mode)

load_master_data(lock, open_mode) ==
    LET buf == lock.master_file IN
    IF open_mode = MustExist /\ buf = <<>> THEN [m |-> lock, res |-> Err(NoMasterData)]
    ELSE IF buf = <<>> THEN [m |-> lock, res |-> Ok(TRUE)]
    ELSE LET loaded == [lock EXCEPT !.max_top_children = buf[1].max_top_children,
                                    !.hits = buf[1].hits,
                                    !.score = buf[1].score]
         IN IF Len(buf[1].selectors) < buf[1].n_children
            THEN [m |-> loaded, res |-> Err(TooFewTrees)]
            ELSE LoadTrees(loaded, SubSeq(buf[1].selectors, 1, buf[1].n_children),
                           open_mode)

\* the master file as found in the directory: NoMaster, or its contents
NoMaster == [exists |-> FALSE, data |-> <<>>]

\* MultiFileTreeMap::new in a directory holding the shard files dir and the
\* master file found
MultiFileTreeMap_new(dir, found, max_top_children, open_mode, hash_order) ==
    IF open_mode = MustExist /\ ~found.exists THEN Err(MasterMissing)
    ELSE LET master_file == IF open_mode = TruncateCreate \/ ~found.exists
                            THEN <<>> ELSE found.data
             loaded == load_master_data(
                           [dir |-> dir,
                            master_file |-> master_file,
                            trees |-> <<>>,
                            hash_order |-> hash_order,
                            max_top_children |-> max_top_children,
                            hits |-> 0,
                            score |-> 0,
                            open_mode |-> open_mode,
                            poisoned |-> FALSE],
                           open_mode)
         IN IF ~IsOk(loaded.res) THEN loaded.res
            ELSE Ok(save_master_data(loaded.m))

---------------------------------------------------------------------------
(* The single store: created on an empty directory, then any sequence of   *)
(* calls of its public operations.                                         *)

Call(op, args, res) == [op |-> op, args |-> args, res |-> res]

TreeInit ==
    /\ \E m \in MaxChildrenIn : tree = TreeMap_new(NoFiles, m, TruncateCreate).val
    /\ made = <<>>
    /\ ret = Call("new", <<>>, Ok(TRUE))

AddChild ==
    \E node \in NodeIds, key \in Keys, c \in ChildIn :
        LET r == TreeMap_add_child(tree, node, key, c[1], c[2], c[3]) IN
        /\ Len(r.t.node_file) <= MaxNodes
        /\ tree' = r.t
        /\ made' = IF IsOk(r.res)
                   THEN Append(made, [parent |-> node, key |-> key, hits |-> c[1],
                                      score |-> c[2], max_children |-> c[3]])
                   ELSE made
        /\ ret' = Call("add_child", <<node, key>>, r.res)
        /\ UNCHANGED <<multi, mmade, mret, calls, locks>>

GetNode ==
    \E node \in NodeIds :
        /\ ret' = Call("get_node", <<>>, TreeMap_get_node(tree, node))
        /\ UNCHANGED <<tree, made, multi, mmade, mret, calls, locks>>

GetChild ==
    \E node \in NodeIds, key \in Keys :
        /\ ret' = Call("get_child", <<>>, TreeMap_get_child(tree, node, key))
        /\ UNCHANGED <<tree, made, multi, mmade, mret, calls, locks>>

GetParent ==
    \E node \in NodeIds :
        /\ ret' = Call("get_parent", <<>>, TreeMap_get_parent(tree, node))
        /\ UNCHANGED <<tree, made, multi, mmade, mret, calls, locks>>

GetChildIter ==
    \E node \in NodeIds :
        LET r == TreeMap_get_child_iter(tree, node) IN
        /\ tree' = r.t
        /\ ret' = Call("get_child_iter", <<>>, r.res)
        /\ UNCHANGED <<made, multi, mmade, mret, calls, locks>>


\* the sharded store is not touched by the single store's calls
MultiIdle ==
    /\ multi = "none" /\ mmade = {} /\ mret = Call("none", <<>>, Ok(TRUE))
    /\ NoThreads

Init == TreeInit /\ MultiIdle

Next == AddChild \/ GetNode \/ GetChild \/ GetParent \/ GetChildIter

Spec == Init /\ [][Next]_vars

---------------------------------------------------------------------------
(* Claims about the single store.  The read operations are functions of    *)
(* the store, so a claim about what they return in every state is an       *)
(* invariant over all their arguments.  A claim is about the calls that    *)
(* return: a store whose mutex a panic has poisoned returns nothing.       *)

\* the set of pairs get_child_iter(node) yields (a call that panics yields none)
IterPairs(t, node) ==
    LET r == TreeMap_get_child_iter(t, node).res IN
    IF IsOk(r) THEN {r.val[i] : i \in DOMAIN r.val} ELSE {}

\* how many times get_child_iter(node) yields a pair with this id
IterCount(t, node, id) ==
    LET r == TreeMap_get_child_iter(t, node).res IN
    IF IsOk(r) THEN Cardinality({i \in DOMAIN r.val : r.val[i][2] = id}) ELSE 0

Existing(t) == 0..(TreeMap_len(t) - 1)

NChildren(t, node) == TreeMap_get_node(t, node).val.n_children

\* the successful add_child calls made on `node` so far
MadeOn(node) == {c \in DOMAIN made : made[c].parent = node}

\* the public fields of the record get_node/get_child return for c, n_children aside
RecordAsMade(r, c) ==
    /\ r.node_id = c
    /\ r.parent = Some(made[c].parent)
    /\ r.hits = made[c].hits
    /\ r.score = made[c].score
    /\ r.max_children = made[c].max_children

\* C1: a successful add_child returns the len() of before the call and makes
\* len() one larger; the k-th successful add_child returns k.
C1_AddChildReturnsLen ==
    [][(ret'.op = "add_child" /\ IsOk(ret'.res)) =>
         /\ ret'.res.val = TreeMap_len(tree)
         /\ TreeMap_len(tree') = TreeMap_len(tree) + 1
         /\ ret'.res.val = Len(made')]_vars

\* C1 witness: the second successful add_child, made on a non-top parent, returned 2
C1_Witness ==
    /\ ret.op = "add_child" /\ IsOk(ret.res) /\ ret.res.val = 2
    /\ ret.args[1] = 1

\* C3 as claimed: the record of an added node c, as returned by get_node(c) and
\* by get_child(p, k), keeps the arguments c was added with and n_children = 0
\* after every later add_child.
C3_Original ==
    ~tree.poisoned =>
        \A c \in DOMAIN made :
            LET nd == TreeMap_get_node(tree, c)
                ch == TreeMap_get_child(tree, made[c].parent, made[c].key)
            IN /\ IsOk(nd) /\ RecordAsMade(nd.val, c) /\ nd.val.n_children = 0
               /\ IsOk(ch) /\ ch.val = Some(nd.val)

\* C3 as amended: the same, with n_children equal to the number of successful
\* add_child calls made on c since (0 right after c was added).
C3_AddedNodeIsReadBack ==
    ~tree.poisoned =>
        \A c \in DOMAIN made :
            LET nd == TreeMap_get_node(tree, c)
                ch == TreeMap_get_child(tree, made[c].parent, made[c].key)
            IN /\ IsOk(nd) /\ RecordAsMade(nd.val, c)
               /\ nd.val.n_children = Cardinality(MadeOn(c))
               /\ IsOk(ch) /\ ch.val = Some(nd.val)

\* C3 witness: two nodes were added under the top and a failed add_child followed
C3_Witness ==
    /\ ~tree.poisoned /\ Len(made) = 2 /\ made[1].parent = 0 /\ made[2].parent = 0
    /\ ret.op = "add_child" /\ ~IsOk(ret.res)

\* C5: add_child on a parent that holds max_children children fails with
\* LogicError and leaves len(), the parent's n_children, the pairs its
\* iterator yields and the length of the map file as they were.
C5_FullParentRejects ==
    [][(/\ ret'.op = "add_child"
        /\ ~tree.poisoned
        /\ ret'.args[1] \in Existing(tree)
        /\ NChildren(tree, ret'.args[1]) =
               TreeMap_get_node(tree, ret'.args[1]).val.max_children)
       => /\ IsErr(ret'.res, LogicError)
          /\ TreeMap_len(tree') = TreeMap_len(tree)
          /\ NChildren(tree', ret'.args[1]) = NChildren(tree, ret'.args[1])
          /\ IterPairs(tree', ret'.args[1]) = IterPairs(tree, ret'.args[1])
          /\ Len(tree'.map_file) = Len(tree.map_file)]_vars

\* C5 witness: add_child with a new key was refused on a non-top parent holding
\* 1 of 1 children
C5_Witness ==
    /\ ret.op = "add_child" /\ IsErr(ret.res, LogicError)
    /\ ret.args[1] \in Existing(tree) \ {0}
    /\ NChildren(tree, ret.args[1]) = 1
    /\ TreeMap_get_node(tree, ret.args[1]).val.max_children = 1
    /\ \A c \in MadeOn(ret.args[1]) : made[c].key # ret.args[2]

\* C6: add_child(p, k) on a parent that has a child with key k fails with
\* LogicError, appends no node and leaves p's n_children and get_child(p, k)
\* as they were.
C6_DuplicateKeyRejects ==
    [][(/\ ret'.op = "add_child"
        /\ ~tree.poisoned
        /\ \E c \in MadeOn(ret'.args[1]) : made[c].key = ret'.args[2])
       => /\ IsErr(ret'.res, LogicError)
          /\ TreeMap_len(tree') = TreeMap_len(tree)
          /\ Len(tree'.node_file) = Len(tree.node_file)
          /\ NChildren(tree', ret'.args[1]) = NChildren(tree, ret'.args[1])
          /\ \A c \in MadeOn(ret'.args[1]) :
                made[c].key = ret'.args[2] =>
                  /\ TreeMap_get_child(tree', ret'.args[1], ret'.args[2]) =
                         Ok(Some(TreeMap_get_node(tree, c).val))
                  /\ TreeMap_get_child(tree, ret'.args[1], ret'.args[2]) =
                         Ok(Some(TreeMap_get_node(tree, c).val))]_vars

\* C6 witness: add_child with the key of its one child was refused on a parent
\* that has room for a second child
C6_Witness ==
    /\ ret.op = "add_child" /\ IsErr(ret.res, LogicError)
    /\ ret.args[1] \in Existing(tree)
    /\ NChildren(tree, ret.args[1]) = 1
    /\ TreeMap_get_node(tree, ret.args[1]).val.max_children = 2
    /\ \E c \in MadeOn(ret.args[1]) : made[c].key = ret.args[2]

C10_GetParentIsAddParent ==
    ~tree.poisoned =>
        /\ TreeMap_get_parent(tree, 0) = Ok(None)
        /\ Existing(tree) = {0} \cup DOMAIN made
        /\ \A x \in DOMAIN made :
             LET y == made[x].parent IN
             /\ TreeMap_get_parent(tree, x) = Ok(Some(TreeMap_get_node(tree, y).val))
             /\ TreeMap_get_node(tree, y).val.node_id = y
             /\ Cardinality({k \in Keys : <<k, x>> \in IterPairs(tree, y)}) = 1
             /\ IterCount(tree, y, x) = 1

\* C10 witness: node 2 was added under node 1, which has a parent of its own
C10_Witness ==
    /\ ~tree.poisoned /\ Len(made) = 2 /\ made[2].parent = 1
    /\ ret.op = "get_parent" /\ ret.res = TreeMap_get_parent(tree, 2)
    /\ ret.res.val # None /\ ret.res.val[1].node_id = 1

---------------------------------------------------------------------------
(* The sharded store: created with TruncateCreate or OpenCreate in a       *)
(* directory without a master file, then any sequence of calls of its      *)
(* public operations.  The directory may hold shard files that              *)
(* TreeMap::new(path, 2, _, Some(selector)) left there: the file prefix is *)
(* part of TreeMap's public constructor.                                   *)

MaxTopShardsIn == {1, 2}
KeysM == {1, 257}
LocalIds == 0..(MaxNodes - 1)
NodeIdsM == {selector_node_from_node(n, sel) : n \in LocalIds, sel \in Selectors}
HashOrders == {<<0, 1>>, <<1, 0>>}

\* (hits, score, max_children) given to add_child
ChildInM == {<<100, 1000, 2>>}

FilesOf(t) == Files(t.node_file, t.map_file)
\* no shard files, or the files of every selector, each holding a top node
Dirs == {[sel \in Selectors |-> NoFiles],
         [sel \in Selectors |-> FilesOf(TreeMap_new(NoFiles, 2, TruncateCreate).val)]}

\* the composite top and every node some shard file of the roster holds below its top
CountNodes(lock) ==
    LET RECURSIVE sum(_)
        sum(S) == IF S = {} THEN 0
                  ELSE LET sel == CHOOSE x \in S : TRUE IN
                       Len(lock.trees[sel].node_file) - 1 + sum(S \ {sel})
    IN sum(DOMAIN lock.trees) + 1

MultiInit ==
    /\ \E dir \in Dirs, max \in MaxTopShardsIn,
          mode \in {TruncateCreate, OpenCreate}, order \in HashOrders :
         multi = MultiFileTreeMap_new(dir, NoMaster, max, mode, order).val
    /\ mmade = {}
    /\ mret = Call("new", <<>>, Ok(TRUE))

MAddChild ==
    \E node \in NodeIdsM, key \in KeysM, c \in ChildInM :
        LET r == MultiFileTreeMap_add_child(multi, node, key, c[1], c[2], c[3]) IN
        /\ CountNodes(r.m) <= MaxNodes
        /\ multi' = r.m
        /\ mmade' = IF IsOk(r.res)
                    THEN mmade \cup {[id |-> r.res.val, parent |-> node, key |-> key,
                                      hits |-> c[1], score |-> c[2],
                                      max_children |-> c[3]]}
                    ELSE mmade
        /\ mret' = Call("add_child", <<node, key>>, r.res)
        /\ UNCHANGED <<tree, made, ret, calls, locks>>

MGetNode ==
    \E node \in NodeIdsM :
        LET r == MultiFileTreeMap_get_node(multi, node) IN
        /\ multi' = r.m
        /\ mret' = Call("get_node", <<>>, r.res)
        /\ UNCHANGED <<mmade, tree, made, ret, calls, locks>>

MGetChild ==
    \E node \in NodeIdsM, key \in KeysM :
        LET r == MultiFileTreeMap_get_child(multi, node, key) IN
        /\ multi' = r.m
        /\ mret' = Call("get_child", <<>>, r.res)
        /\ UNCHANGED <<mmade, tree, made, ret, calls, locks>>

MGetParent ==
    \E node \in NodeIdsM :
        LET r == MultiFileTreeMap_get_parent(multi, node) IN
        /\ multi' = r.m
        /\ mret' = Call("get_parent", <<>>, r.res)
        /\ UNCHANGED <<mmade, tree, made, ret, calls, locks>>

MGetChildIter ==
    \E node \in NodeIdsM :
        LET r == MultiFileTreeMap_get_child_iter(multi, node) IN
        /\ multi' = r.m
        /\ mret' = Call("get_child_iter", <<>>, r.res)
        /\ UNCHANGED <<mmade, tree, made, ret, calls, locks>>

\* the single store is not touched by the sharded store's calls
TreeIdle ==
    /\ tree = TreeMap_new(NoFiles, 0, TruncateCreate).val
    /\ made = <<>>
    /\ ret = Call("none", <<>>, Ok(TRUE))
    /\ NoThreads

InitMulti == MultiInit /\ TreeIdle

NextMulti == MAddChild \/ MGetNode \/ MGetChild \/ MGetParent \/ MGetChildIter

SpecMulti == InitMulti /\ [][NextMulti]_vars

---------------------------------------------------------------------------
(* Claims about the sharded store.  As for the single store, a claim is    *)
(* about the calls that return: once a panic has poisoned the master       *)
(* mutex every call panics.                                                *)

\* the selector add_child(node, key, ..) works in
SelectorOf(node, key) == get_selector(node, Some(key)).val

\* the node count of shard sel before a call: of its tree when on the roster,
\* else of its files in the directory, else of a shard just created (its top)
ShardCount(lock, sel) ==
    IF sel \in DOMAIN lock.trees THEN Len(lock.trees[sel].node_file)
    ELSE IF lock.dir[sel].exists /\ lock.open_mode # TruncateCreate
         THEN Len(lock.dir[sel].node_file)
    ELSE 1

RosterSize(lock) == Cardinality(DOMAIN lock.trees)

\* the successful add_child calls made on `node` of the sharded store so far
MMadeOn(node) == {r \in mmade : r.parent = node}

RECURSIVE Below(_, _)
\* the ids within n successful add_child calls of the ids S
Below(S, n) ==
    IF n = 0 THEN S
    ELSE Below(S \cup {r.id : r \in {x \in mmade : x.parent \in S}}, n - 1)

\* the nodes of the logical tree: the top and what was added below it
LogicalNodes == Below({MultiFileTreeMap_get_top}, MaxNodes)

\* the pairs get_child_iter(node) yields (a call that panics yields none)
MIterPairs(lock, node) ==
    LET r == MultiFileTreeMap_get_child_iter(lock, node).res IN
    IF IsOk(r) THEN {r.val[i] : i \in DOMAIN r.val} ELSE {}

\* how many pairs get_child_iter(node) yields
MIterLen(lock, node) ==
    LET r == MultiFileTreeMap_get_child_iter(lock, node).res IN
    IF IsOk(r) THEN Len(r.val) ELSE 0

\* C2: add_child(0, key, ..) whose selector s is not on a non-full roster
\* puts shard s on the roster and returns (1 << 8) | s; every successful
\* add_child returns (n << 8) | s, n the node count of shard s before the call.
C2_AddChildReturnsShardLen ==
    [][(mret'.op = "add_child" /\ ~multi.poisoned) =>
         LET node == mret'.args[1]
             sel == SelectorOf(node, mret'.args[2])
         IN /\ (/\ node = MultiFileTreeMap_get_top
                /\ sel \notin DOMAIN multi.trees
                /\ RosterSize(multi) < multi.max_top_children)
               => /\ sel \in DOMAIN multi'.trees
                  /\ mret'.res = Ok(selector_node_from_node(1, sel))
            /\ IsOk(mret'.res)
               => mret'.res.val =
                     selector_node_from_node(ShardCount(multi, sel), sel)]_vars

\* C4: the record of an added node c, as returned by get_node(c) and by
\* get_child(p, k), has node_id = c, the hits and score c was added with, and
\* parent = p, the composite id of the parent, p being the top or a node
\* added below it.
C4_AddedNodeIsReadBack ==
    ~multi.poisoned =>
        \A r \in {x \in mmade : x.parent \in LogicalNodes} :
            LET nd == MultiFileTreeMap_get_node(multi, r.id).res
                ch == MultiFileTreeMap_get_child(multi, r.parent, r.key).res
            IN /\ IsOk(nd)
               /\ nd.val.node_id = r.id
               /\ nd.val.hits = r.hits
               /\ nd.val.score = r.score
               /\ nd.val.parent = Some(r.parent)
               /\ ch = Ok(Some(nd.val))

\* C7: the roster never holds more than max_top_shards shards; add_child(0,
\* key, ..) whose selector is not on a full roster fails with the roster-full
\* error and leaves the roster, the shard files and the master file unchanged.
C7_FullRosterRejects ==
    [][/\ RosterSize(multi) <= multi.max_top_children
       /\ RosterSize(multi') <= multi'.max_top_children
       /\ (/\ mret'.op = "add_child"
           /\ ~multi.poisoned
           /\ mret'.args[1] = MultiFileTreeMap_get_top
           /\ SelectorOf(mret'.args[1], mret'.args[2]) \notin DOMAIN multi.trees
           /\ RosterSize(multi) >= multi.max_top_children)
          => /\ mret'.res = Err(RosterFull)
             /\ multi'.trees = multi.trees
             /\ multi'.dir = multi.dir
             /\ multi'.master_file = multi.master_file]_vars

\* C7 witness: with the one shard it has room for on the roster and a node
\* in that shard, add_child(0, key, ..) for another shard was refused
C7_Witness ==
    /\ mret.op = "add_child" /\ mret.res = Err(RosterFull)
    /\ mret.args[1] = MultiFileTreeMap_get_top
    /\ RosterSize(multi) = multi.max_top_children
    /\ SelectorOf(mret.args[1], mret.args[2]) \notin DOMAIN multi.trees
    /\ mmade # {}

\* C9: get_child_iter(p), p the top or a node added below it, yields exactly
\* once each pair (key, c) of a successful add_child(p, key, ..) that returned
\* c, and nothing else.
C9_IterYieldsAddedChildren ==
    ~multi.poisoned =>
        \A p \in LogicalNodes :
            /\ MIterPairs(multi, p) = {<<r.key, r.id>> : r \in MMadeOn(p)}
            /\ MIterLen(multi, p) = Cardinality(MMadeOn(p))

\* C11: get_parent(c) of a node c added directly under the top returns the
\* composite top record: node_id = 0, parent = none, hits and score those of
\* the master record.
C11_ParentOfTopChildIsTop ==
    ~multi.poisoned =>
        \A r \in MMadeOn(MultiFileTreeMap_get_top) :
            LET res == MultiFileTreeMap_get_parent(multi, r.id).res IN
            /\ IsOk(res) /\ res.val # None
            /\ res.val[1].node_id = MultiFileTreeMap_get_top
            /\ res.val[1].parent = None
            /\ res.val[1].hits = multi.hits
            /\ res.val[1].score = multi.score

\* C12: get_child(0, key) for a selector that is not on the roster and has no
\* files in the directory returns Ok(none), whether or not the roster is
\* full, and leaves the roster as it was.
C12_GetChildOfMissingShardIsNone ==
    ~multi.poisoned =>
        \A key \in KeysM :
            LET sel == SelectorOf(MultiFileTreeMap_get_top, key)
                r == MultiFileTreeMap_get_child(multi, MultiFileTreeMap_get_top, key)
            IN (sel \notin DOMAIN multi.trees /\ ~multi.dir[sel].exists)
               => /\ r.res = Ok(None)
                  /\ r.m.trees = multi.trees

---------------------------------------------------------------------------
(* The single store under update_node_add: created on an empty directory,  *)
(* then any sequence of add_child and update_node_add calls.  The counters *)
(* stay far below 2^64: the sums are taken without wrap-around.            *)

\* hits of a node are kept at or below this by the guard of UpdateNodeAdd
MaxHits == 100

\* (hits, score, max_children) given to add_child
ChildInU == {<<100, 1000, 1>>}

\* (hits, score) given to update_node_add: both applicable, both negative,
\* only the score too negative, only the hits too negative
DeltaIn == {<<100, 1000>>, <<-100, -1000>>, <<100, -5000>>, <<-300, 1000>>}

UAddChild ==
    \E node \in NodeIds, key \in Keys, c \in ChildInU :
        LET r == TreeMap_add_child(tree, node, key, c[1], c[2], c[3]) IN
        /\ Len(r.t.node_file) <= MaxNodes
        /\ tree' = r.t
        /\ made' = IF IsOk(r.res)
                   THEN Append(made, [parent |-> node, key |-> key, hits |-> c[1],
                                      score |-> c[2], max_children |-> c[3]])
                   ELSE made
        /\ ret' = Call("add_child", <<node, key>>, r.res)
        /\ UNCHANGED <<multi, mmade, mret, calls, locks>>

UpdateNodeAdd ==
    \E node \in NodeIds, d \in DeltaIn :
        LET r == TreeMap_update_node_add(tree, node, d[1], d[2]) IN
        /\ \A i \in DOMAIN r.t.node_file : r.t.node_file[i].hits <= MaxHits
        /\ tree' = r.t
        /\ ret' = Call("update_node_add", <<node, d[1], d[2]>>, r.res)
        /\ UNCHANGED <<made, multi, mmade, mret, calls, locks>>

InitUpdate == TreeInit /\ MultiIdle

NextUpdate == UAddChild \/ UpdateNodeAdd

SpecUpdate == InitUpdate /\ [][NextUpdate]_vars

\* C13: a successful update_node_add(id, dh, ds) changes the hits of node id
\* by exactly dh and its score by exactly ds, and leaves its parent,
\* n_children, max_children and children, the record of every other node and
\* len() as they were.
C13_UpdateChangesOnlyCounters ==
    [][(ret'.op = "update_node_add" /\ IsOk(ret'.res)) =>
         LET id == ret'.args[1]
             before == TreeMap_get_node(tree, id).val
             after == TreeMap_get_node(tree', id).val
         IN /\ after.hits = before.hits + ret'.args[2]
            /\ after.score = before.score + ret'.args[3]
            /\ after = [before EXCEPT !.hits = after.hits, !.score = after.score]
            /\ IterPairs(tree', id) = IterPairs(tree, id)
            /\ \A x \in Existing(tree) \ {id} :
                 TreeMap_get_node(tree', x) = TreeMap_get_node(tree, x)
            /\ TreeMap_len(tree') = TreeMap_len(tree)]_vars

\* C13 witness: both counters of node 1, which has a parent and a child, were
\* taken down by a successful update_node_add
C13_Witness ==
    /\ ret.op = "update_node_add" /\ IsOk(ret.res)
    /\ ret.args = <<1, -100, -1000>>
    /\ 1 \in Existing(tree) /\ NChildren(tree, 1) = 1
    /\ TreeMap_get_node(tree, 1).val.hits = 0

\* C14: update_node_add(id, dh, ds) with dh < 0 and |dh| > hits, or ds < 0 and
\* |ds| > score, fails with LogicError and leaves the hits and the score of
\* the node as they were, also when only one of the two deltas underflows.
C14_UnderflowRejects ==
    [][(/\ ret'.op = "update_node_add"
        /\ ret'.args[1] \in Existing(tree)
        /\ LET before == TreeMap_get_node(tree, ret'.args[1]).val IN
           \/ ret'.args[2] < 0 /\ -ret'.args[2] > before.hits
           \/ ret'.args[3] < 0 /\ -ret'.args[3] > before.score)
       => /\ IsErr(ret'.res, LogicError)
          /\ TreeMap_get_node(tree', ret'.args[1]) = TreeMap_get_node(tree, ret'.args[1])
          /\ tree' = tree]_vars

\* C14 witness: update_node_add was refused for the score alone, on a node
\* whose hits could have taken the delta
C14_Witness ==
    /\ ret.op = "update_node_add" /\ IsErr(ret.res, LogicError)
    /\ ret.args = <<1, 100, -5000>>
    /\ 1 \in Existing(tree)
    /\ TreeMap_get_node(tree, 1).val.hits = 100
    /\ TreeMap_get_node(tree, 1).val.score = 1000

---------------------------------------------------------------------------
(* Further claims about the single store under its calls of Spec.          *)

\* C16: for every node x, get_node(x).n_children is the number of successful
\* add_child(x, ..) calls so far and is at most get_node(x).max_children.
C16_NChildrenCountsAdds ==
    ~tree.poisoned =>
        \A x \in Existing(tree) :
            LET nd == TreeMap_get_node(tree, x) IN
            /\ IsOk(nd)
            /\ nd.val.n_children = Cardinality(MadeOn(x))
            /\ nd.val.n_children <= nd.val.max_children

\* C16 witness: the top holds 2 of 2 children and a third add_child on it
\* was refused
C16_Witness ==
    /\ ~tree.poisoned
    /\ NChildren(tree, TreeMap_get_top) = 2
    /\ TreeMap_get_node(tree, TreeMap_get_top).val.max_children = 2
    /\ ret.op = "add_child" /\ ret.args[1] = TreeMap_get_top /\ ~IsOk(ret.res)

---------------------------------------------------------------------------
(* The sharded store under update_node_add: created as for SpecMulti, then *)
(* any sequence of add_child and update_node_add calls.                    *)

\* the ids update_node_add is called with: the top, the id made of local id 0
\* and selector 1, and the first node of either shard
NodeIdsU ==
    {MultiFileTreeMap_get_top, selector_node_from_node(0, 1),
     selector_node_from_node(1, 0), selector_node_from_node(1, 1)}

\* add_child under the top
MUAddChild ==
    \E key \in KeysM, c \in ChildInM :
        LET node == MultiFileTreeMap_get_top
            r == MultiFileTreeMap_add_child(multi, node, key, c[1], c[2], c[3])
        IN /\ CountNodes(r.m) <= MaxNodes
           /\ multi' = r.m
           /\ mmade' = IF IsOk(r.res)
                       THEN mmade \cup {[id |-> r.res.val, parent |-> node, key |-> key,
                                         hits |-> c[1], score |-> c[2],
                                         max_children |-> c[3]]}
                       ELSE mmade
           /\ mret' = Call("add_child", <<node, key>>, r.res)
           /\ UNCHANGED <<tree, made, ret, calls, locks>>

\* the hits of the master record and of every node of the roster's trees
AllHits(lock) ==
    {lock.hits} \cup
    UNION {{lock.trees[sel].node_file[i].hits : i \in DOMAIN lock.trees[sel].node_file} :
              sel \in DOMAIN lock.trees}

MUpdateNodeAdd ==
    \E node \in NodeIdsU, d \in DeltaIn :
        LET r == MultiFileTreeMap_update_node_add(multi, node, d[1], d[2]) IN
        /\ \A h \in AllHits(r.m) : h <= MaxHits
        /\ multi' = r.m
        /\ mret' = Call("update_node_add", <<node, d[1], d[2]>>, r.res)
        /\ UNCHANGED <<mmade, tree, made, ret, calls, locks>>

InitMultiUpdate == MultiInit /\ TreeIdle

NextMultiUpdate == MUAddChild \/ MUpdateNodeAdd

SpecMultiUpdate == InitMultiUpdate /\ [][NextMultiUpdate]_vars

---------------------------------------------------------------------------
(* Claims about the sharded store under update_node_add.                   *)

\* C15: update_node_add(0, dh, ds) in which either delta would take its
\* accumulator below zero fails and leaves both accumulators of the top as
\* they were, for get_node(0) and in the master record.
C15_TopUnderflowRejects ==
    [][(/\ mret'.op = "update_node_add"
        /\ ~multi.poisoned
        /\ mret'.args[1] = MultiFileTreeMap_get_top
        /\ \/ mret'.args[2] < 0 /\ -mret'.args[2] > multi.hits
           \/ mret'.args[3] < 0 /\ -mret'.args[3] > multi.score)
       => /\ ~IsOk(mret'.res)
          /\ MultiFileTreeMap_get_node(multi', MultiFileTreeMap_get_top).res =
                 MultiFileTreeMap_get_node(multi, MultiFileTreeMap_get_top).res
          /\ multi'.master_file = multi.master_file]_vars

C20_ShardTopsStayZero ==
    \A sel \in DOMAIN multi.trees :
        /\ multi.trees[sel].node_file[1].hits = 0
        /\ multi.trees[sel].node_file[1].score = 0

---------------------------------------------------------------------------
(* Further claims about the sharded store under its calls of SpecMulti.    *)

\* C18: len() is 1 plus the number of nodes below the tops of all shards,
\* which is 1 plus the number of successful add_child calls; the shards' own
\* top nodes are not counted.
C18_LenCountsLogicalNodes ==
    ~multi.poisoned =>
        /\ MultiFileTreeMap_len(multi) = CountNodes(multi)
        /\ MultiFileTreeMap_len(multi) = 1 + Cardinality(mmade)

\* C19: a shard that add_child creates gets a top node with max_children =
\* max_top_shards, and the first add_child routed to it is not refused for
\* capacity.
C19_NewShardTopHasRoom ==
    [][(/\ mret'.op = "add_child"
        /\ ~multi.poisoned
        /\ mret'.args[1] = MultiFileTreeMap_get_top
        /\ SelectorOf(mret'.args[1], mret'.args[2]) \notin DOMAIN multi.trees
        /\ ~multi.dir[SelectorOf(mret'.args[1], mret'.args[2])].exists
        /\ RosterSize(multi) < multi.max_top_children)
       => LET sel == SelectorOf(mret'.args[1], mret'.args[2]) IN
          /\ sel \in DOMAIN multi'.trees
          /\ TreeMap_get_node(multi'.trees[sel], TreeMap_get_top).val.max_children =
                 multi.max_top_children
          /\ ~IsErr(mret'.res, LogicError)]_vars

---------------------------------------------------------------------------
(* The single store closed and opened again: created on an empty           *)
(* directory, then any sequence of add_child and get_child_iter calls and  *)
(* of closing the store (Drop) and opening its files with OpenCreate.      *)
(* Every write goes to the File itself, so the files hold all that was     *)
(* written also when Drop panics on a poisoned mutex.                      *)

Reopen ==
    \E m \in MaxChildrenIn :
        /\ tree' = TreeMap_new(FilesOf(tree), m, OpenCreate).val
        /\ ret' = Call("reopen", <<m>>, Ok(TRUE))
        /\ UNCHANGED <<made, multi, mmade, mret, calls, locks>>

InitReopen == TreeInit /\ MultiIdle

NextReopen == AddChild \/ GetChildIter \/ Reopen

SpecReopen == InitReopen /\ [][NextReopen]_vars

\* C21: closing the store and opening it again with OpenCreate, whatever
\* max_top_children is given, reproduces len() and every result of get_node,
\* get_child and get_child_iter; the top keeps the max_children of its record
\* and no node is appended.
C21_ReopenReproduces ==
    [][(ret'.op = "reopen" /\ ~tree.poisoned) =>
         /\ TreeMap_len(tree') = TreeMap_len(tree)
         /\ Len(tree'.node_file) = Len(tree.node_file)
         /\ \A x \in NodeIds :
              /\ TreeMap_get_node(tree', x) = TreeMap_get_node(tree, x)
              /\ TreeMap_get_child_iter(tree', x).res = TreeMap_get_child_iter(tree, x).res
              /\ \A k \in Keys :
                   TreeMap_get_child(tree', x, k) = TreeMap_get_child(tree, x, k)]_vars

\* C21 witness: a store of three nodes whose top was made with max_children 2
\* was opened again with max_top_children 0
C21_Witness ==
    /\ ret.op = "reopen" /\ ret.args = <<0>>
    /\ TreeMap_len(tree) = 3
    /\ TreeMap_get_node(tree, TreeMap_get_top).val.max_children = 2

---------------------------------------------------------------------------
(* The sharded store closed and opened again: created as for SpecMulti,    *)
(* then any sequence of add_child and update_node_add calls and of closing *)
(* the store and opening it with OpenCreate or MustExist.  Closing leaves  *)
(* the files of the roster's trees in the directory; the HashMap of the    *)
(* new store iterates in an order of its own.                              *)

\* the shard files in the directory once the store is closed
ClosedDir(lock) ==
    [sel \in Selectors |->
        IF sel \in DOMAIN lock.trees THEN FilesOf(lock.trees[sel]) ELSE lock.dir[sel]]

\* the master file as the closed store leaves it
ClosedMaster(lock) == [exists |-> TRUE, data |-> lock.master_file]

MReopen ==
    \E max \in MaxTopShardsIn, mode \in {OpenCreate, MustExist}, order \in HashOrders :
        LET r == MultiFileTreeMap_new(ClosedDir(multi), ClosedMaster(multi), max, mode,
                                      order)
        IN /\ IsOk(r)
           /\ multi' = r.val
           /\ mret' = Call("reopen", <<max, mode>>, Ok(TRUE))
           /\ UNCHANGED <<mmade, tree, made, ret, calls, locks>>

InitMultiReopen == MultiInit /\ TreeIdle

NextMultiReopen == MUAddChild \/ MUpdateNodeAdd \/ MReopen

SpecMultiReopen == InitMultiReopen /\ [][NextMultiReopen]_vars

\* C22: closing the store and opening it again with OpenCreate or MustExist,
\* whatever max_top_shards is given, yields get_node(0) with the hits, score,
\* n_children and max_children of before the close, and every node added
\* before is still returned by get_node and by get_child.
C22_ReopenKeepsTopAndNodes ==
    [][(mret'.op = "reopen" /\ ~multi.poisoned) =>
         LET before == MultiFileTreeMap_get_node(multi, MultiFileTreeMap_get_top).res.val
             after == MultiFileTreeMap_get_node(multi', MultiFileTreeMap_get_top).res.val
         IN /\ after.hits = before.hits
            /\ after.score = before.score
            /\ after.n_children = before.n_children
            /\ after.max_children = before.max_children
            /\ \A r \in mmade :
                 LET nd == MultiFileTreeMap_get_node(multi', r.id).res
                     ch == MultiFileTreeMap_get_child(multi', r.parent, r.key).res
                 IN /\ IsOk(nd)
                    /\ nd = MultiFileTreeMap_get_node(multi, r.id).res
                    /\ IsOk(ch) /\ ch.val # None
                    /\ ch = MultiFileTreeMap_get_child(multi, r.parent, r.key).res]_vars


\* C23: opening the sharded store with OpenCreate and closing it again, no
\* mutating call between, leaves the master file (the order of its selector
\* bytes included) and the node and map file of every shard as they were.
C23_OpenCloseKeepsFiles ==
    [][(mret'.op = "reopen" /\ mret'.args[2] = OpenCreate) =>
         /\ ClosedMaster(multi') = ClosedMaster(multi)
         /\ ClosedDir(multi') = ClosedDir(multi)]_vars


---------------------------------------------------------------------------
(* Absent ids of the single store (checked under Spec).                    *)

\* ids at and past len()
AbsentIds == {x \in 0..(MaxNodes + 2) : x >= TreeMap_len(tree)}

\* C24: get_node, add_child, get_child, get_parent and update_node_add given
\* an id >= len() fail with NonExistingNode and leave both files and len() as
\* they were; get_child_iter on such an id yields the empty sequence.
C24_AbsentIdRejected ==
    ~tree.poisoned =>
      \A x \in AbsentIds :
        /\ TreeMap_get_node(tree, x) = Err(NonExistingNode)
        /\ \A k \in Keys :
             /\ TreeMap_get_child(tree, x, k) = Err(NonExistingNode)
             /\ \A c \in ChildIn :
                  TreeMap_add_child(tree, x, k, c[1], c[2], c[3])
                    = [t |-> tree, res |-> Err(NonExistingNode)]
        /\ TreeMap_get_parent(tree, x) = Err(NonExistingNode)
        /\ \A d \in DeltaIn :
             TreeMap_update_node_add(tree, x, d[1], d[2])
               = [t |-> tree, res |-> Err(NonExistingNode)]
        /\ TreeMap_get_child_iter(tree, x) = [t |-> tree, res |-> Ok(<<>>)]

\* C24 witness: get_node was called with id 2 on a store of two nodes
C24_Witness ==
    /\ ret.op = "get_node" /\ ret.res = Err(NonExistingNode)
    /\ TreeMap_len(tree) = 2
    /\ ~tree.poisoned
    /\ TreeMap_get_node(tree, 2) = Err(NonExistingNode)


---------------------------------------------------------------------------
(* Opening and closing.  A store that is not open is the directory it      *)
(* leaves: for the single store its node file and its map file, each None  *)
(* (no such file) or Some(contents); for the sharded store the shard files *)
(* and the master file.  The directory the first open finds holds no       *)
(* file, one of the two files, or two empty files.                         *)

Closed(node, map) == [closed |-> TRUE, node |-> node, map |-> map]
IsClosed(t) == "closed" \in DOMAIN t

\* `exists` of TreeMap::new: both paths are files
FoundIn(d) ==
    IF d.node # None /\ d.map # None THEN Files(d.node[1], d.map[1]) ELSE NoFiles

\* faulty variant: the two files are created before MustExist is refused
TreeMap_open_creating(d, max_top_children, open_mode) ==
    LET r == TreeMap_new(FoundIn(d), max_top_children, open_mode) IN
    IF IsOk(r)
    THEN [d |-> Closed(Some(r.val.node_file), Some(r.val.map_file)), res |-> r]
    ELSE [d |-> Closed(Some(<<>>), Some(<<>>)), res |-> r]

\* TreeMap::new in the directory d: the directory it leaves, and its result
TreeMap_open(d, max_top_children, open_mode) ==
    LET r == TreeMap_new(FoundIn(d), max_top_children, open_mode) IN
    IF IsOk(r)
    THEN [d |-> Closed(Some(r.val.node_file), Some(r.val.map_file)), res |-> r]
    ELSE [d |-> d, res |-> r]

MClosed(dir, master) == [closed |-> TRUE, dir |-> dir, master |-> master]

\* MultiFileTreeMap::new in the directory d: the directory it leaves, and
\* its result; a master file created or truncated stays so when the load fails
MultiFileTreeMap_open(d, max_top_children, open_mode, hash_order) ==
    LET r == MultiFileTreeMap_new(d.dir, d.master, max_top_children, open_mode,
                                  hash_order)
    IN IF IsOk(r)
       THEN [d |-> MClosed(ClosedDir(r.val), ClosedMaster(r.val)), res |-> r]
       ELSE IF open_mode = MustExist /\ ~d.master.exists THEN [d |-> d, res |-> r]
       ELSE [d |-> MClosed(d.dir,
                           IF open_mode = TruncateCreate \/ ~d.master.exists
                           THEN [exists |-> TRUE, data |-> <<>>] ELSE d.master),
             res |-> r]

\* the file of a store holding its top node only
TopOnly == TreeMap_new(NoFiles, 2, TruncateCreate).val.node_file

DirsIn == {Closed(None, None), Closed(Some(TopOnly), None), Closed(None, Some(<<>>)),
           Closed(Some(<<>>), Some(<<>>))}

Open ==
    /\ IsClosed(tree)
    /\ \E mode \in OpenModes, m \in MaxChildrenIn :
         LET r == TreeMap_open(tree, m, mode) IN
         /\ tree' = IF IsOk(r.res) THEN r.res.val ELSE r.d
         /\ ret' = Call("new", <<mode, m>>, IF IsOk(r.res) THEN Ok(TRUE) ELSE r.res)
    /\ UNCHANGED <<made, multi, mmade, mret, calls, locks>>

OAddChild ==
    /\ ~IsClosed(tree)
    /\ \E node \in NodeIds, key \in Keys, c \in ChildInU :
         LET r == TreeMap_add_child(tree, node, key, c[1], c[2], c[3]) IN
         /\ Len(r.t.node_file) <= MaxNodes
         /\ tree' = r.t
         /\ ret' = Call("add_child", <<node, key>>, r.res)
    /\ UNCHANGED <<made, multi, mmade, mret, calls, locks>>

\* dropping the TreeMap closes its files
Close ==
    /\ ~IsClosed(tree)
    /\ tree' = Closed(Some(tree.node_file), Some(tree.map_file))
    /\ ret' = Call("drop", <<>>, Ok(TRUE))
    /\ UNCHANGED <<made, multi, mmade, mret, calls, locks>>

MOpen ==
    /\ IsClosed(multi)
    /\ \E mode \in OpenModes, max \in MaxTopShardsIn, order \in HashOrders :
         LET r == MultiFileTreeMap_open(multi, max, mode, order) IN
         /\ multi' = IF IsOk(r.res) THEN r.res.val ELSE r.d
         /\ mret' = Call("new", <<mode>>, IF IsOk(r.res) THEN Ok(TRUE) ELSE r.res)
    /\ UNCHANGED <<mmade, tree, made, ret, calls, locks>>

MClose ==
    /\ ~IsClosed(multi)
    /\ multi' = MClosed(ClosedDir(multi), ClosedMaster(multi))
    /\ mret' = Call("drop", <<>>, Ok(TRUE))
    /\ UNCHANGED <<mmade, tree, made, ret, calls, locks>>

InitOpen ==
    /\ tree \in DirsIn
    /\ made = <<>>
    /\ ret = Call("none", <<>>, Ok(TRUE))
    /\ \E dir \in Dirs : multi = MClosed(dir, NoMaster)
    /\ mmade = {}
    /\ mret = Call("none", <<>>, Ok(TRUE))
    /\ NoThreads

NextOpen == Open \/ OAddChild \/ Close \/ MOpen \/ MClose

SpecOpen == InitOpen /\ [][NextOpen]_vars

\* C25: MustExist in a directory where the node file or the map file is
\* missing fails with NonExistingFiles, and in a directory without master
\* file the sharded store fails to open; either leaves the directory as it
\* found it, and TruncateCreate and OpenCreate succeed in that directory.
C25_MustExistRefusesMissing ==
    [][/\ (ret'.op = "new" /\ ret'.args[1] = MustExist /\ IsClosed(tree)
            /\ (tree.node = None \/ tree.map = None)) =>
             /\ ret'.res = Err(NonExistingFiles)
             /\ tree' = tree
             /\ \A mode \in {TruncateCreate, OpenCreate}, m \in MaxChildrenIn :
                  IsOk(TreeMap_open(tree, m, mode).res)
       /\ (mret'.op = "new" /\ mret'.args[1] = MustExist /\ IsClosed(multi)
            /\ ~multi.master.exists) =>
             /\ mret'.res.tag = "Err"
             /\ multi' = multi
             /\ \A mode \in {TruncateCreate, OpenCreate}, max \in MaxTopShardsIn,
                   order \in HashOrders :
                  IsOk(MultiFileTreeMap_open(multi, max, mode, order).res)]_vars

\* C25 witness: MustExist was refused where only the node file exists, and
\* the sharded store was refused where no master file exists
C25_Witness ==
    /\ ret.op = "new" /\ ret.args[1] = MustExist /\ ret.res = Err(NonExistingFiles)
    /\ tree = Closed(Some(TopOnly), None)
    /\ mret.op = "new" /\ mret.args[1] = MustExist /\ mret.res = Err(MasterMissing)
    /\ IsClosed(multi) /\ ~multi.master.exists


\* the records of the node file that have no parent
TopRecords(t) == {i \in 1..Len(t.node_file) : t.node_file[i].parent_pos = U64_MAX}

\* C26: a store opened with TruncateCreate, or with OpenCreate where the two
\* files are not both there or the node file is empty, has len() = 1 and
\* get_top() = 0, and its top node has no parent, hits 0, score 0, no
\* children and the max_children given to the open; an open that finds a
\* node file with records adds none, so every open store holds one top node.
C26_FreshStoreHoldsTop ==
    [][(ret'.op = "new" /\ IsOk(ret'.res) /\ IsClosed(tree)) =>
         LET mode == ret'.args[1]
             found == FoundIn(tree)
             top == TreeMap_get_node(tree', TreeMap_get_top)
         IN /\ (mode = TruncateCreate
                  \/ (mode = OpenCreate /\ (~found.exists \/ found.node_file = <<>>))) =>
                 /\ TreeMap_len(tree') = 1
                 /\ TreeMap_get_top = 0
                 /\ IsOk(top)
                 /\ top.val.node_id = 0
                 /\ top.val.parent = None
                 /\ top.val.hits = 0
                 /\ top.val.score = 0
                 /\ top.val.n_children = 0
                 /\ top.val.max_children = ret'.args[2]
            /\ (mode # TruncateCreate /\ found.exists /\ found.node_file # <<>>) =>
                 /\ tree'.node_file = found.node_file
                 /\ tree'.map_file = found.map_file
            /\ TopRecords(tree') = {1}]_vars

\* C26 witness: OpenCreate with max_top_children 1 has opened a store of one
\* node whose top has room for one child
C26_Witness ==
    /\ ret.op = "new" /\ ret.args = <<OpenCreate, 1>>
    /\ ~IsClosed(tree)
    /\ TreeMap_len(tree) = 1
    /\ TreeMap_get_node(tree, TreeMap_get_top).val.max_children = 1


\* C27: get_child_iter on an existing node without children returns the
\* empty sequence, neither failing nor panicking, whatever the node's
\* max_children and the length of the map file, and leaves the store as it
\* was (checked under Spec).
C27_IterOfChildlessIsEmpty ==
    ~tree.poisoned =>
      \A x \in Existing(tree) :
        NChildren(tree, x) = 0 =>
          TreeMap_get_child_iter(tree, x) = [t |-> tree, res |-> Ok(<<>>)]


---------------------------------------------------------------------------
(* The child blocks of the map file (checked under Spec).  The claims are  *)
(* about the files, so they read the records whether or not the mutex is   *)
(* poisoned.                                                               *)

\* the record of an existing node
Record(t, x) == get_node(t, node_id_to_pos(x)).val

\* the nodes that have at least one child
Parents(t) == {x \in Existing(t) : Record(t, x).n_children > 0}

\* the bytes of the map file reserved for the children of x
BlockBytes(t, x) ==
    LET r == Record(t, x) IN
    r.first_child_pos .. (r.first_child_pos + MAP_LENGTH * r.max_children - 1)

RECURSIVE BlockSum(_, _)
\* the sum of 10 * max_children over the nodes S
BlockSum(t, S) ==
    IF S = {} THEN 0
    ELSE LET x == CHOOSE y \in S : TRUE IN
         MAP_LENGTH * Record(t, x).max_children + BlockSum(t, S \ {x})

\* C28: for every node with n_children > 0 the bytes from first_child_map_pos
\* to first_child_map_pos + 10 * max_children lie inside the map file, the
\* blocks of distinct nodes are disjoint, and the map file is as long as the
\* sum of 10 * max_children over the nodes that have a child.
C28_BlocksTileMapFile ==
    /\ \A x \in Parents(tree) :
         /\ Record(tree, x).first_child_pos >= 0
         /\ Record(tree, x).first_child_pos + MAP_LENGTH * Record(tree, x).max_children
              <= Len(tree.map_file) * MAP_LENGTH
    /\ \A x, y \in Parents(tree) :
         x # y => BlockBytes(tree, x) \cap BlockBytes(tree, y) = {}
    /\ Len(tree.map_file) * MAP_LENGTH = BlockSum(tree, Parents(tree))

\* C28 witness: add_child has given a second node its first child; the two
\* blocks, of two entries and of one, fill a map file of 30 bytes
C28_Witness ==
    /\ ret.op = "add_child" /\ IsOk(ret.res)
    /\ Cardinality(Parents(tree)) = 2
    /\ {Record(tree, x).max_children : x \in Parents(tree)} = {1, 2}
    /\ Len(tree.map_file) * MAP_LENGTH = 30


\* the entries of the map file reserved for the children of x
Block(t, x) ==
    LET r == Record(t, x)
        first == r.first_child_pos \div MAP_LENGTH
    IN SubSeq(t.map_file, first + 1, first + r.max_children)

RECURSIVE Ascending(_)
\* the ids S, smallest first: the order in which add_child made them
Ascending(S) ==
    IF S = {} THEN <<>>
    ELSE LET m == CHOOSE y \in S : \A z \in S : y <= z IN
         <<m>> \o Ascending(S \ {m})

\* C29: in each node's block the first n_children entries have pairwise
\* distinct keys and stand in insertion order: entry i is, in every state
\* after it was written, the position and key of the i-th child add_child
\* gave the node; the reserved entries after them are all 0xFF bytes.
C29_BlockKeepsInsertionOrder ==
    \A x \in Parents(tree) :
      LET n == Record(tree, x).n_children
          b == Block(tree, x)
          added == Ascending(MadeOn(x))
      IN /\ n = Len(added)
         /\ Len(b) = Record(tree, x).max_children
         /\ \A i \in 1..n :
              b[i] = [node_pos |-> node_id_to_pos(added[i]), key |-> made[added[i]].key]
         /\ \A i, j \in 1..n : i # j => b[i].key # b[j].key
         /\ \A i \in (n + 1)..Len(b) : b[i] = [node_pos |-> U64_MAX, key |-> U16_MAX]

\* C29 witness: add_child has put key 10 after key 15 in the top node's block
C29_Witness ==
    /\ ret.op = "add_child" /\ IsOk(ret.res)
    /\ Record(tree, 0).n_children = 2
    /\ Block(tree, 0)[1] = [node_pos |-> node_id_to_pos(1), key |-> 15]
    /\ Block(tree, 0)[2] = [node_pos |-> node_id_to_pos(2), key |-> 10]


---------------------------------------------------------------------------
(* add_child write by write.  The call reads and checks first; then come   *)
(* its three writes, each a write_all that either succeeds or fails with   *)
(* an I/O error that `?` hands to the caller.  A write to the node file    *)
(* that fails has written nothing; a write of a block to the map file that *)
(* fails may have written any number of the block's leading entries.       *)
(* `ret` holds the call in progress: its result is Pending(p), p the       *)
(* locals of add_child and the write to come.                              *)

Pending(p) == [tag |-> "Pending", val |-> p]

\* add_child up to its first write: an Err, or the locals for the writes
add_child_begin(t, node, key, hits, score, max_children) ==
    IF ~IsOk(check_presence(t, node)) THEN check_presence(t, node)
    ELSE LET parent_pos == node_id_to_pos(node)
             child_pos == expected_node_pos(t)
             children_meta == get_node_child_meta(t, parent_pos)
             locals == [step |-> "map", parent_pos |-> parent_pos,
                        child_pos |-> child_pos, hits |-> hits, score |-> score,
                        max_children |-> max_children]
         IN IF ~IsOk(children_meta) THEN children_meta
            ELSE IF children_meta.val.n_children = 0
            THEN IF children_meta.val.max_children = 0 THEN Err(LogicError)
                 ELSE Ok(locals @@
                         [append |-> TRUE,
                          child_maps |-> <<[node_pos |-> child_pos, key |-> key]>>,
                          meta |-> [children_meta.val EXCEPT !.n_children = 1]])
            ELSE LET rd == get_children_maps(t, key, children_meta.val) IN
                 IF ~IsOk(rd) THEN rd
                 ELSE IF rd.val.key_hit # None THEN Err(LogicError)
                 ELSE IF Len(rd.val.child_maps) + 1 > children_meta.val.max_children
                 THEN Err(LogicError)
                 ELSE Ok(locals @@
                         [append |-> FALSE,
                          child_maps |-> Append(rd.val.child_maps,
                                                [node_pos |-> child_pos, key |-> key]),
                          meta |-> [children_meta.val EXCEPT
                                      !.n_children = Len(rd.val.child_maps) + 1]])

\* faulty variant: the parent's record is patched before the block is written
add_child_step_meta_first(lock, p) ==
    IF p.step = "map"
    THEN LET meta == IF p.append
                     THEN [p.meta EXCEPT
                             !.first_child_pos = Len(lock.map_file) * MAP_LENGTH]
                     ELSE p.meta
         IN [lock |-> update_node_child_meta(lock, p.parent_pos, meta),
             p |-> [p EXCEPT !.step = "meta", !.meta = meta]]
    ELSE IF p.step = "meta"
    THEN [lock |-> IF p.append
                   THEN add_child_map(lock, p.child_maps[1], p.meta.max_children).lock
                   ELSE update_children_maps(lock, p.child_maps, p.meta),
          p |-> [p EXCEPT !.step = "node"]]
    ELSE [lock |-> add_node(lock, p.parent_pos, p.hits, p.score, p.max_children),
          p |-> [p EXCEPT !.step = "done"]]

\* the write of add_child that p.step names, succeeding: the block to the
\* map file, then the children meta of the parent's record, then the
\* child's record
add_child_step(lock, p) ==
    IF p.step = "map"
    THEN IF p.append
         THEN LET added == add_child_map(lock, p.child_maps[1], p.meta.max_children) IN
              [lock |-> added.lock,
               p |-> [p EXCEPT !.step = "meta", !.meta.first_child_pos = added.pos]]
         ELSE [lock |-> update_children_maps(lock, p.child_maps, p.meta),
               p |-> [p EXCEPT !.step = "meta"]]
    ELSE IF p.step = "meta"
    THEN [lock |-> update_node_child_meta(lock, p.parent_pos, p.meta),
          p |-> [p EXCEPT !.step = "node"]]
    ELSE [lock |-> add_node(lock, p.parent_pos, p.hits, p.score, p.max_children),
          p |-> [p EXCEPT !.step = "done"]]

\* what the write that p.step names can leave when it fails
add_child_fail(lock, p) ==
    IF p.step = "map"
    THEN LET buf == children_to_buf(p.child_maps, p.meta.max_children)
             pos == IF p.append THEN Len(lock.map_file) * MAP_LENGTH
                    ELSE p.meta.first_child_pos
         IN {[lock EXCEPT !.map_file = WriteAll(@, pos, MAP_LENGTH, SubSeq(buf, 1, k))] :
               k \in 0..(Len(buf) - 1)}
    ELSE {lock}

MaxMapEntries == 4

ChildInS == {<<100, 1000, 1>>, <<100, 1000, 2>>}

IsPending == ret.res.tag = "Pending"

SBegin ==
    /\ ~IsPending
    /\ Len(tree.node_file) < MaxNodes
    /\ Len(tree.map_file) < MaxMapEntries
    /\ \E node \in NodeIds, key \in Keys, c \in ChildInS :
         LET b == add_child_begin(tree, node, key, c[1], c[2], c[3]) IN
         ret' = Call("add_child", <<node, key>>, IF IsOk(b) THEN Pending(b.val) ELSE b)
    /\ UNCHANGED <<tree, made, multi, mmade, mret, calls, locks>>

SWrite ==
    /\ IsPending
    /\ LET r == add_child_step(tree, ret.res.val) IN
       /\ tree' = r.lock
       /\ ret' = [ret EXCEPT !.res = IF r.p.step = "done"
                                     THEN Ok(pos_to_node_id(r.p.child_pos))
                                     ELSE Pending(r.p)]
    /\ UNCHANGED <<made, multi, mmade, mret, calls, locks>>

SFail ==
    /\ IsPending
    /\ \E l \in add_child_fail(tree, ret.res.val) : tree' = l
    /\ ret' = [ret EXCEPT !.res = Err(FileIOError)]
    /\ UNCHANGED <<made, multi, mmade, mret, calls, locks>>

InitSteps == TreeInit /\ MultiIdle

NextSteps == SBegin \/ SWrite \/ SFail

SpecSteps == InitSteps /\ [][NextSteps]_vars

\* every node with stored n_children n > 0 has its whole block inside the
\* map file, the first n entries each holding a child's position and key
BlocksWritten(t) ==
    \A x \in Parents(t) :
      LET r == Record(t, x) IN
      /\ r.first_child_pos \div MAP_LENGTH + r.max_children <= Len(t.map_file)
      /\ \A i \in 1..r.n_children :
           /\ Block(t, x)[i].node_pos # U64_MAX
           /\ Block(t, x)[i].key \in Keys

\* C30: add_child writes the map block, then patches the parent's children
\* meta, then appends the child's record: a step that raises a node's
\* n_children finds the block with the new entry already in the map file,
\* a step that appends a record finds it already counted and entered in its
\* parent's block; and in every state between the writes or left by a
\* failed write, every node with n_children n > 0 has its whole block
\* inside the map file with its first n entries written.
C30_WritesOrdered ==
    [][/\ BlocksWritten(tree')
       /\ \A x \in Existing(tree) :
            Record(tree', x).n_children > Record(tree, x).n_children =>
              LET r == Record(tree', x)
                  first == r.first_child_pos \div MAP_LENGTH
              IN /\ first + r.max_children <= Len(tree.map_file)
                 /\ \A i \in 1..r.n_children :
                      tree.map_file[first + i].node_pos # U64_MAX
       /\ Len(tree'.node_file) > Len(tree.node_file) =>
            LET child_pos == Len(tree.node_file) * NODE_LENGTH
                x == pos_to_node_id(tree'.node_file[Len(tree'.node_file)].parent_pos)
            IN /\ x \in Parents(tree)
               /\ \E i \in 1..Record(tree, x).n_children :
                    Block(tree, x)[i].node_pos = child_pos]_vars

\* C30 witness: the write of a second node's block failed part-way, after
\* the top node's block was written, its record patched and its child appended
C30_Witness ==
    /\ ret.op = "add_child" /\ ret.res = Err(FileIOError)
    /\ Len(tree.node_file) = 2
    /\ Record(tree, 0).n_children = 1
    /\ Len(tree.map_file) > Record(tree, 0).max_children


\* the live entries of the map file: <<owner, i>> for the first n_children
\* entries of each node's block
LiveEntries(t) ==
    {e \in Parents(t) \X (1..MaxMapEntries) : e[2] <= Record(t, e[1]).n_children}

\* C31: whenever no operation is in progress, a failed add_child included,
\* every live entry of the map file references a record that exists in the
\* node file and whose parent is the owner of the entry's block, and no two
\* live entries reference the same node.
C31_LiveEntriesReferenceChildren ==
    ~IsPending =>
      /\ \A e \in LiveEntries(tree) :
           LET pos == Block(tree, e[1])[e[2]].node_pos IN
           /\ pos < NODE_LENGTH * TreeMap_len(tree)
           /\ Record(tree, pos_to_node_id(pos)).parent = Some(e[1])
      /\ \A e, f \in LiveEntries(tree) :
           e # f => Block(tree, e[1])[e[2]].node_pos # Block(tree, f[1])[f[2]].node_pos


\* C32: along every sequence of add_child and update_node_add calls, len()
\* never decreases, no node's n_children decreases, the first_child_map_pos
\* of a node with n_children >= 1 stays what it is, and the parent and the
\* max_children of an existing node stay what they are (checked under
\* SpecUpdate).
C32_NoBackTransition ==
    [][/\ TreeMap_len(tree') >= TreeMap_len(tree)
       /\ \A x \in Existing(tree) :
            LET old == Record(tree, x)
                new == Record(tree', x)
            IN /\ new.n_children >= old.n_children
               /\ old.n_children >= 1 => new.first_child_pos = old.first_child_pos
               /\ new.parent = old.parent
               /\ new.max_children = old.max_children]_vars

\* C32 witness: update_node_add has changed the counters of node 1, which has
\* a child and whose block is the second of the map file
C32_Witness ==
    /\ ret.op = "update_node_add" /\ IsOk(ret.res)
    /\ ret.args = <<1, -100, -1000>>
    /\ TreeMap_len(tree) = 3
    /\ Record(tree, 1).n_children = 1
    /\ Record(tree, 1).first_child_pos > 0
    /\ Record(tree, 1).parent = Some(0)
    /\ Record(tree, 1).score = 0


---------------------------------------------------------------------------
(* Threads sharing one sharded store.  Every public operation that takes a *)
(* lock begins with self.guarded.lock() and keeps the guard to its end;    *)
(* with the guard held it calls methods of the roster's TreeMaps, each of  *)
(* which locks that TreeMap's own mutex for the length of the method.  A   *)
(* call is taken lock by lock: what it reads and writes happens under the  *)
(* master guard, so it is applied when the call returns.  lock() waits     *)
(* while another thread's guard is alive; a thread makes MaxCalls calls.   *)

Threads == {1, 2}
MaxCalls == 2
Free == 0
\* the mutex of MasterData among the mutexes, those of the trees being named
\* by their selectors
MasterMutex == 256
Mutexes == Selectors \cup {MasterMutex}

IdleCall(n) == [op |-> "none", args |-> <<>>, pc |-> "idle", plan |-> <<>>, n |-> n]

\* the mutexes of trees that manage_trees_and_execute locks: the tree of the
\* selector by the method called on it, and before that, when add_tree makes
\* the tree, by TreeMap::new
shard_plan(lock, tree_selector, open_mode) ==
    IF tree_selector \in DOMAIN lock.trees THEN <<tree_selector>>
    ELSE IF IsOk(add_tree(lock, tree_selector, open_mode).res)
    THEN <<tree_selector, tree_selector>>
    ELSE <<>>

\* faulty variant: get_node of the top takes the master lock again for
\* get_top_node_data while it holds the guard
lock_plan_relock(lock, op, args) ==
    IF lock.poisoned THEN <<>>
    ELSE IF op = "len" THEN RosterOrder(lock)
    ELSE IF op = "get_child_iter" /\ args[1] = MultiFileTreeMap_get_top
    THEN RosterOrder(lock)
    ELSE IF op = "get_node" /\ args[1] = MultiFileTreeMap_get_top
    THEN <<MasterMutex>>
    ELSE IF op = "update_node_add" /\ args[1] = MultiFileTreeMap_get_top THEN <<>>
    ELSE IF op = "add_child"
    THEN shard_plan(lock, get_selector(args[1], Some(args[2])).val, lock.open_mode)
    ELSE shard_plan(lock, get_selector(args[1], None).val, MustExist)

\* the mutexes a call locks, one after the other, while it holds the master
\* guard: lock().unwrap() on a poisoned master mutex panics at once
lock_plan(lock, op, args) ==
    IF lock.poisoned THEN <<>>
    ELSE IF op = "len" THEN RosterOrder(lock)
    ELSE IF op = "get_child_iter" /\ args[1] = MultiFileTreeMap_get_top
    THEN RosterOrder(lock)
    ELSE IF op = "get_node" /\ args[1] = MultiFileTreeMap_get_top THEN <<>>
    ELSE IF op = "update_node_add" /\ args[1] = MultiFileTreeMap_get_top THEN <<>>
    ELSE IF op = "add_child"
    THEN shard_plan(lock, get_selector(args[1], Some(args[2])).val, lock.open_mode)
    ELSE shard_plan(lock, get_selector(args[1], None).val, MustExist)

\* what the call does to the store and returns
Exec(lock, op, args) ==
    IF op = "len"
    THEN [m |-> lock,
          res |-> IF lock.poisoned \/ \E s \in DOMAIN lock.trees : lock.trees[s].poisoned
                  THEN Panic ELSE Ok(MultiFileTreeMap_len(lock))]
    ELSE IF op = "get_node" THEN MultiFileTreeMap_get_node(lock, args[1])
    ELSE IF op = "get_child_iter" THEN MultiFileTreeMap_get_child_iter(lock, args[1])
    ELSE IF op = "update_node_add"
    THEN MultiFileTreeMap_update_node_add(lock, args[1], args[2], args[3])
    ELSE MultiFileTreeMap_add_child(lock, args[1], args[2], args[3], args[4], args[5])

\* the calls the threads make
CallsIn ==
    {<<"len", <<>>>>, <<"get_child_iter", <<0>>>>, <<"get_node", <<0>>>>,
     <<"get_node", <<257>>>>, <<"update_node_add", <<0, 100, 1000>>>>}
    \cup {<<"add_child", <<0, k, 100, 1000, 2>>>> : k \in KeysM}

Start(t) ==
    /\ calls[t].pc = "idle"
    /\ calls[t].n < MaxCalls
    /\ \E c \in CallsIn :
         calls' = [calls EXCEPT ![t] = [op |-> c[1], args |-> c[2], pc |-> "lock_master",
                                        plan |-> <<>>, n |-> @.n + 1]]
    /\ UNCHANGED <<locks, multi, mmade, mret, tree, made, ret>>

LockMaster(t) ==
    /\ calls[t].pc = "lock_master"
    /\ locks[MasterMutex] = Free
    /\ locks' = [locks EXCEPT ![MasterMutex] = t]
    /\ calls' = [calls EXCEPT ![t].pc = "locked",
                              ![t].plan = lock_plan(multi, calls[t].op, calls[t].args)]
    /\ UNCHANGED <<multi, mmade, mret, tree, made, ret>>

LockTree(t) ==
    /\ calls[t].pc = "locked"
    /\ calls[t].plan # <<>>
    /\ locks[Head(calls[t].plan)] = Free
    /\ locks' = [locks EXCEPT ![Head(calls[t].plan)] = t]
    /\ calls' = [calls EXCEPT ![t].pc = "in_tree"]
    /\ UNCHANGED <<multi, mmade, mret, tree, made, ret>>

UnlockTree(t) ==
    /\ calls[t].pc = "in_tree"
    /\ locks' = [locks EXCEPT ![Head(calls[t].plan)] = Free]
    /\ calls' = [calls EXCEPT ![t].pc = "locked", ![t].plan = Tail(@)]
    /\ UNCHANGED <<multi, mmade, mret, tree, made, ret>>

\* the end of a call as the threads see it: the master guard is dropped
Unlocks(t) ==
    /\ calls[t].pc = "locked"
    /\ calls[t].plan = <<>>
    /\ locks' = [locks EXCEPT ![MasterMutex] = Free]
    /\ calls' = [calls EXCEPT ![t] = IdleCall(@.n)]

Return(t) ==
    /\ Unlocks(t)
    /\ LET r == Exec(multi, calls[t].op, calls[t].args) IN
       /\ multi' = r.m
       /\ mret' = Call(calls[t].op, <<>>, r.res)
       /\ mmade' = IF calls[t].op = "add_child" /\ IsOk(r.res)
                   THEN mmade \cup {[id |-> r.res.val, parent |-> calls[t].args[1],
                                     key |-> calls[t].args[2], hits |-> calls[t].args[3],
                                     score |-> calls[t].args[4],
                                     max_children |-> calls[t].args[5]]}
                   ELSE mmade
    /\ UNCHANGED <<tree, made, ret>>

TStart == \E t \in Threads : Start(t)
TLockMaster == \E t \in Threads : LockMaster(t)
TLockTree == \E t \in Threads : LockTree(t)
TUnlockTree == \E t \in Threads : UnlockTree(t)
TReturn == \E t \in Threads : Return(t)

\* the directory holds the files of every selector, each with a top node
ShardsThere == [sel \in Selectors |-> FilesOf(TreeMap_new(NoFiles, 2, TruncateCreate).val)]

InitThreads ==
    /\ \E order \in HashOrders :
         multi = MultiFileTreeMap_new(ShardsThere, NoMaster, 2, OpenCreate, order).val
    /\ mmade = {}
    /\ mret = Call("new", <<>>, Ok(TRUE))
    /\ tree = TreeMap_new(NoFiles, 0, TruncateCreate).val
    /\ made = <<>>
    /\ ret = Call("none", <<>>, Ok(TRUE))
    /\ calls = [t \in Threads |-> IdleCall(0)]
    /\ locks = [m \in Mutexes |-> Free]

NextThreads == TStart \/ TLockMaster \/ TLockTree \/ TUnlockTree \/ TReturn

SpecThreads == InitThreads /\ [][NextThreads]_vars

\* a thread that is in a call takes its next step if it can: it is scheduled
\* again and again, and lock() returns once the mutex is free for good
Progress(t) == LockMaster(t) \/ LockTree(t) \/ UnlockTree(t) \/ Unlocks(t)

SpecThreadsFair ==
    SpecThreads /\ \A t \in Threads : WF_<<calls, locks>>(Progress(t))

InCall(t) == calls[t].pc # "idle"

\* the mutex the thread waits for, or Free
WaitsFor(t) ==
    IF calls[t].pc = "lock_master" THEN MasterMutex
    ELSE IF calls[t].pc = "locked" /\ calls[t].plan # <<>> THEN Head(calls[t].plan)
    ELSE Free

HeldBy(t) == {m \in Mutexes : locks[m] = t}

\* C33: with threads calling the operations of one sharded store, a call
\* locks the master mutex before the mutex of any tree, holds the mutex of at
\* most one tree at a time and never locks a mutex it holds; whenever calls
\* are in progress one of them can take a step, and every call that has
\* begun comes to its end.
C33_NoDeadlock ==
    /\ [](\A t \in Threads :
            /\ (HeldBy(t) \cap Selectors # {}) => locks[MasterMutex] = t
            /\ Cardinality(HeldBy(t) \cap Selectors) <= 1
            /\ WaitsFor(t) # Free => locks[WaitsFor(t)] # t
            /\ ~InCall(t) => HeldBy(t) = {})
    /\ []((\E t \in Threads : InCall(t)) =>
            \E t \in Threads :
              InCall(t) /\ (WaitsFor(t) = Free \/ locks[WaitsFor(t)] = Free))
    /\ \A t \in Threads : InCall(t) ~> ~InCall(t)

\* C33 witness: thread 1 holds the master guard and the guard of a tree
\* while thread 2 waits in lock() for the master mutex
C33_Witness ==
    /\ calls[1].pc = "in_tree"
    /\ locks[MasterMutex] = 1
    /\ HeldBy(1) \cap Selectors # {}
    /\ calls[2].pc = "lock_master"


---------------------------------------------------------------------------
(* Threads sharing one single store.  add_child and update_node_add begin  *)
(* with self.guarded.lock() and keep the guard to their end; under it the  *)
(* call first reads (the presence check, the parent's children meta and    *)
(* block, or the node's record), then writes.  A call is taken step by     *)
(* step: lock, read, each write, unlock.  `made` is the history of the     *)
(* calls that returned Ok, in the order of their return.                   *)

\* faulty variant: lock() returns whether or not another guard is alive
can_lock_always(holder) == TRUE

\* lock() returns when no guard of the mutex is alive
can_lock(holder) == holder = Free

\* update_node_add up to its write: an Err, or the record to write
update_node_add_begin(t, node, hits, score) ==
    IF ~IsOk(check_presence(t, node)) THEN check_presence(t, node)
    ELSE LET node_data == get_node(t, node_id_to_pos(node)) IN
         IF ~IsOk(node_data) THEN node_data
         ELSE LET h == add_and_subtract(node_data.val.hits, hits) IN
              IF ~IsOk(h) THEN h
              ELSE LET s == add_and_subtract(node_data.val.score, score) IN
                   IF ~IsOk(s) THEN s
                   ELSE Ok([step |-> "record",
                            node_data |-> [node_data.val EXCEPT !.hits = h.val,
                                                                !.score = s.val]])

\* the calls the threads make on the single store
TreeCallsIn ==
    {<<"add_child", <<node, key, 100, 1000, 1>>>> : node \in {0, 1}, key \in Keys}
    \cup {<<"update_node_add", <<0, 100, 1000>>>>,
          <<"update_node_add", <<1, -100, -1000>>>>}

TreeCall(op, args, pc, p, res, n) ==
    [op |-> op, args |-> args, pc |-> pc, p |-> p, res |-> res, n |-> n]

IdleTreeCall(n) == TreeCall("none", <<>>, "idle", <<>>, Ok(TRUE), n)

SStart(t) ==
    /\ calls[t].pc = "idle"
    /\ calls[t].n < MaxCalls
    /\ \E c \in TreeCallsIn :
         calls' = [calls EXCEPT ![t] =
                     TreeCall(c[1], c[2], "lock", <<>>, Ok(TRUE), @.n + 1)]
    /\ UNCHANGED <<locks, tree, made, ret, multi, mmade, mret>>

SLock(t) ==
    /\ calls[t].pc = "lock"
    /\ can_lock(locks.guarded)
    /\ locks' = [locks EXCEPT !.guarded = t]
    /\ calls' = [calls EXCEPT ![t].pc = "read"]
    /\ UNCHANGED <<tree, made, ret, multi, mmade, mret>>

SRead(t) ==
    /\ calls[t].pc = "read"
    /\ LET c == calls[t]
           b == IF c.op = "add_child"
                THEN add_child_begin(tree, c.args[1], c.args[2], c.args[3], c.args[4],
                                     c.args[5])
                ELSE update_node_add_begin(tree, c.args[1], c.args[2], c.args[3])
       IN calls' = [calls EXCEPT ![t] =
                      IF IsOk(b) THEN [c EXCEPT !.pc = "write", !.p = b.val]
                      ELSE [c EXCEPT !.pc = "unlock", !.res = b]]
    /\ UNCHANGED <<locks, tree, made, ret, multi, mmade, mret>>

SWriteStep(t) ==
    /\ calls[t].pc = "write"
    /\ LET c == calls[t] IN
       IF c.op = "add_child"
       THEN LET r == add_child_step(tree, c.p) IN
            /\ tree' = r.lock
            /\ calls' = [calls EXCEPT ![t] =
                           IF r.p.step = "done"
                           THEN [c EXCEPT !.pc = "unlock", !.p = <<>>,
                                          !.res = Ok(pos_to_node_id(c.p.child_pos))]
                           ELSE [c EXCEPT !.p = r.p]]
       ELSE /\ tree' = update_node(tree, c.p.node_data)
            /\ calls' = [calls EXCEPT ![t] = [c EXCEPT !.pc = "unlock", !.p = <<>>]]
    /\ UNCHANGED <<locks, made, ret, multi, mmade, mret>>

SUnlock(t) ==
    /\ calls[t].pc = "unlock"
    /\ locks' = [locks EXCEPT !.guarded = Free]
    /\ calls' = [calls EXCEPT ![t] = IdleTreeCall(@.n)]
    /\ made' = IF IsOk(calls[t].res)
               THEN Append(made, [op |-> calls[t].op, args |-> calls[t].args,
                                  id |-> IF calls[t].op = "add_child"
                                         THEN calls[t].res.val ELSE calls[t].args[1],
                                  thread |-> t])
               ELSE made
    /\ ret' = Call(calls[t].op, <<>>, calls[t].res)
    /\ UNCHANGED <<tree, multi, mmade, mret>>

TSStart == \E t \in Threads : SStart(t)
TSLock == \E t \in Threads : SLock(t)
TSRead == \E t \in Threads : SRead(t)
TSWriteStep == \E t \in Threads : SWriteStep(t)
TSUnlock == \E t \in Threads : SUnlock(t)

InitTreeThreads ==
    /\ tree = TreeMap_new(NoFiles, 2, TruncateCreate).val
    /\ made = <<>>
    /\ ret = Call("new", <<>>, Ok(TRUE))
    /\ multi = "none" /\ mmade = {} /\ mret = Call("none", <<>>, Ok(TRUE))
    /\ calls = [t \in Threads |-> IdleTreeCall(0)]
    /\ locks = [guarded |-> Free]

NextTreeThreads == TSStart \/ TSLock \/ TSRead \/ TSWriteStep \/ TSUnlock

SpecTreeThreads == InitTreeThreads /\ [][NextTreeThreads]_vars

\* the add_child calls of the history
Adds == {i \in DOMAIN made : made[i].op = "add_child"}

RECURSIVE Applied(_, _, _)
\* what the first n calls of the history make of counter k (3: hits, 4: score
\* among the arguments of add_child; 2 and 3 among those of update_node_add)
\* of node x, 0 before the node is added
Applied(x, k, n) ==
    IF n = 0 THEN 0
    ELSE LET c == made[n] IN
         Applied(x, k, n - 1)
           + (IF c.id # x THEN 0
              ELSE IF c.op = "add_child" THEN c.args[k] ELSE c.args[k - 1])

\* C34: the calls of threads on one store are serialized by its lock:
\* whenever no guard is alive, the add_child calls that returned Ok returned
\* pairwise distinct ids, len() is 1 plus their number, each key they added
\* is found under its parent and leads to the node of the returned id, and
\* the hits and the score of every node are the values it was added with
\* plus the deltas of the update_node_add calls that returned Ok.
C34_CallsSerialized ==
    locks.guarded = Free =>
      /\ \A i, j \in Adds : i # j => made[i].id # made[j].id
      /\ TreeMap_len(tree) = 1 + Cardinality(Adds)
      /\ \A i \in Adds :
           LET ch == TreeMap_get_child(tree, made[i].args[1], made[i].args[2]) IN
           /\ IsOk(ch) /\ ch.val # None
           /\ ch.val[1].node_id = made[i].id
      /\ \A x \in Existing(tree) :
           /\ Record(tree, x).hits = Applied(x, 3, Len(made))
           /\ Record(tree, x).score = Applied(x, 4, Len(made))

\* C34 witness: both threads have added a child under the top node and one
\* of them has then updated the top node, and no call is in progress
C34_Witness ==
    /\ locks.guarded = Free
    /\ \A t \in Threads : calls[t].pc = "idle"
    /\ Len(made) = 3
    /\ made[1].op = "add_child" /\ made[1].thread = 1 /\ made[1].args[1] = 0
    /\ made[2].op = "add_child" /\ made[2].thread = 2 /\ made[2].args[1] = 0
    /\ made[3].op = "update_node_add" /\ made[3].args = <<0, 100, 1000>>
    /\ TreeMap_len(tree) = 3


\* the selectors whose shard files are in the directory, a tree of the roster
\* holding them or not
ShardFiles(lock) == {sel \in Selectors : sel \in DOMAIN lock.trees \/ lock.dir[sel].exists}

\* C35: an add_child of the sharded store that returns an error leaves the
\* roster size get_node(0) reports, len(), the master record and the set of
\* shard files as they were.
C35_FailedAddChildChangesNothing ==
    [][(mret'.op = "add_child" /\ ~IsOk(mret'.res)) =>
         /\ get_top_node_data(multi').n_children = get_top_node_data(multi).n_children
         /\ MultiFileTreeMap_len(multi') = MultiFileTreeMap_len(multi)
         /\ multi'.master_file = multi.master_file
         /\ ShardFiles(multi') = ShardFiles(multi)]_vars


\* C36: a sharded store opened with TruncateCreate is empty whatever shard
\* files an earlier store left in the directory: until an add_child returns
\* Ok, len() is 1, get_node(0) reports no child, get_child(0, k) returns
\* none for every key, and neither get_node nor get_child returns a node.
C36_TruncateCreateIsEmpty ==
    (multi.open_mode = TruncateCreate /\ mmade = {} /\ ~multi.poisoned) =>
      /\ MultiFileTreeMap_len(multi) = 1
      /\ get_top_node_data(multi).n_children = 0
      /\ \A k \in KeysM :
           MultiFileTreeMap_get_child(multi, MultiFileTreeMap_get_top, k).res = Ok(None)
      /\ \A node \in NodeIdsM \ {MultiFileTreeMap_get_top} :
           /\ ~IsOk(MultiFileTreeMap_get_node(multi, node).res)
           /\ \A k \in KeysM :
                LET r == MultiFileTreeMap_get_child(multi, node, k).res IN
                ~(IsOk(r) /\ r.val # None)


\* C37: every id a successful add_child of the sharded store returned is
\* not 0, differs from the id of every other successful add_child, and
\* decodes to its origin: its low byte is the selector of the shard the node
\* went to (the splitter's for a child of the top, the parent's otherwise),
\* its remaining bits are the node's id in that shard, at least 1, and the
\* shard holds the node there under the parent's key.
C37_IdsDecodeToOrigin ==
    /\ \A a \in mmade :
         LET sel == selector_from_selector_node(a.id)
             local == node_from_selector_node(a.id)
         IN /\ a.id # MultiFileTreeMap_get_top
            /\ sel = get_selector(a.parent, Some(a.key)).val
            /\ local >= 1
            /\ sel \in DOMAIN multi.trees
            /\ local \in Existing(multi.trees[sel])
            /\ LET ch == TreeMap_get_child(multi.trees[sel],
                                           node_from_selector_node(a.parent), a.key)
               IN IsOk(ch) /\ ch.val # None /\ ch.val[1].node_id = local
    /\ \A a, b \in mmade : a # b => a.id # b.id

\* C37 witness: add_child has returned Ok in both shards, each shard giving
\* its first node the local id 1
C37_Witness ==
    /\ \E a, b \in mmade : a.id = 256 /\ b.id = 257
    /\ Cardinality(DOMAIN multi.trees) = 2

============================================================================
